---------------------------- MODULE Spec2Model ----------------------------
(***************************************************************************)
(* Model of scripts/fetch_warsaw_m2_prices.py: the quarterly-to-monthly    *)
(* interpolation of Warsaw m2 prices and their conversion to grams of gold.*)
(*                                                                         *)
(* Prices are Python floats in the source.  Here a price is an integer     *)
(* number of price units, SubCent units making one grosz (0.01 PLN), and   *)
(* arithmetic is exact: round(x, 2) is rounding to the nearest multiple of *)
(* SubCent, ties to the even grosz.                                        *)
(***************************************************************************)
EXTENDS Integers, Sequences, FiniteSets, TLC

VARIABLES
    pc,              \* position of the run
    excel_data,      \* the fetched sheet, until it is extracted
    quarterly,       \* quarterly_prices: sequence of [year, quarter, priceM2]
    monthly,         \* monthly_prices: result of the interpolator
    gold_prices,     \* dict (year, month) -> gold price
    enriched,        \* monthly_prices_with_gold: result of the converter
    outfile,         \* the output file: [state, records]
    outfile_before,  \* the output file as the run found it
    exit_code,       \* None while running, then Some(0) or Some(1)
    error,           \* what ended the run early, "none" otherwise
    label,           \* the period label given to _parse_period
    parsed,          \* what _parse_period returned: [year, quarter]
    header,          \* header_row and warsaw_col found by the extractor
    verbose,         \* DataUpdater.verbose
    skip_validation, \* DataUpdater.skip_validation
    runs,            \* the scripts update_all_data has run, with their outcome
    validated,       \* the data files it has validated, with the outcome
    success,         \* success of update_all_data
    all_secondary_success,
    returned,        \* None, then Some(what update_all_data returned)
    start_year,      \* the start_year given to fetch_all_data
    today,           \* datetime.now() of fetch_all_data, in ticks
    current_start,   \* current_start of fetch_all_data, in ticks
    requests         \* the date ranges requested so far, with their outcome

\* the variables of the parser, of the extractor, of update_all_data and of
\* the gold-price fetcher
parserVars == <<label, parsed>>

extractVars == <<header>>

updaterVars == <<verbose, skip_validation, runs, validated, success,
                 all_secondary_success, returned>>

fetcherVars == <<start_year, today, current_start, requests>>

vars == <<pc, excel_data, quarterly, monthly, gold_prices, enriched,
          outfile, outfile_before, exit_code, error, parserVars,
          extractVars, updaterVars, fetcherVars>>

-----------------------------------------------------------------------------
(* Bounds of the model *)

MaxRecords == 3      \* longest quarterly input
FirstYear == 2005    \* year of the earliest quarter of a quarterly input
FirstQuarterOfs == 2 \* that quarter, counted from 0 (2 is Q3)
NumQuarterKeys == 6  \* consecutive quarters an input draws from
SubCent == 10        \* price units per 0.01 PLN
MaxSeries == 2       \* longest monthly series given to the converter
ConvYear == 2021     \* year of the months given to the converter
NumConvMonths == 3   \* months 1 .. NumConvMonths of that year
NumCols == 3         \* columns of the sheet
HeaderLead == 4      \* blank rows above a header inside the scan window
MaxDataRows == 2     \* most data rows of a sheet
MaxGoldEntries == 2  \* most entries of the gold file
MaxPartial == 2      \* most records a write that breaks off leaves
MaxLabelText == 4    \* longest generated text of a period label
MaxExtractRows == 3  \* most rows below the blank rows of an extractor sheet
FirstAnchorYear == 2000 \* earliest year of the anchors of a lone bridge
NumAnchorYears == 100   \* years the anchors of a lone bridge draw from
MaxGapQuarters == 8     \* most quarters between the anchors of a lone bridge
TicksPerDay == 2        \* instants of a day: tick 0 is midnight
FirstStartYear == 2012  \* earliest start_year given to fetch_all_data
NumStartYears == 4      \* start years FirstStartYear .. + NumStartYears - 1
FirstToday == 360       \* earliest day of datetime.now(): 27 December 2013
NumTodays == 21         \* days FirstToday .. FirstToday + NumTodays - 1

(* Program constants *)

EpochYear == 2006    \* the epoch of the flat month index
ScanRows == 20       \* rows scanned for the header
API_LIMIT_DAYS == 93 \* NBP API returns max 93 days per request
EarliestYear == 2013 \* the year of EARLIEST_DATA, 2 January 2013

\* 2005 Q3 .. 2006 Q4: both sides of the epoch, across a year boundary
QuarterKeys ==
    {<<FirstYear + ((FirstQuarterOfs + i) \div 4),
       ((FirstQuarterOfs + i) % 4) + 1>> : i \in 0 .. (NumQuarterKeys - 1)}

\* 100.00, 160.00 and 100.004 PLN
Prices == {10000 * SubCent, 16000 * SubCent, 10000 * SubCent + 4}

QuarterlyRecord ==
    {[year |-> k[1], quarter |-> k[2], priceM2 |-> p] :
        k \in QuarterKeys, p \in Prices}

-----------------------------------------------------------------------------
(* Python helpers *)

\* lexicographic order of the tuples (year, quarter) and (year, month)
TupleLess(a, b) == a[1] < b[1] \/ (a[1] = b[1] /\ a[2] < b[2])

TupleLeq(a, b) == a = b \/ TupleLess(a, b)

\* the integer nearest to num / den (den > 0), ties to the even integer
RoundHalfEven(num, den) ==
    LET q == num \div den
        r == num - q * den
    IN  IF 2 * r < den THEN q
        ELSE IF 2 * r > den THEN q + 1
        ELSE IF q % 2 = 0 THEN q ELSE q + 1

\* round(num / den, 2) of a price given as a ratio of price units
Round2Ratio(num, den) == SubCent * RoundHalfEven(num, den * SubCent)

\* round(price, 2)
Round2(price) == Round2Ratio(price, 1)

\* d[key] = value on a dict
DictSet(d, key, value) ==
    [k \in (DOMAIN d) \cup {key} |-> IF k = key THEN value ELSE d[k]]

EmptyDict == [k \in {} |-> 0]

\* the least tuple of a non-empty set of tuples
MinTuple(S) == CHOOSE a \in S : \A b \in S : TupleLeq(a, b)

\* mutant: the keys in descending order (sorted(..., reverse=True))
RECURSIVE SortedTuplesDescending(_)
SortedTuplesDescending(S) ==
    IF S = {} THEN <<>>
    ELSE LET a == MinTuple(S) IN SortedTuplesDescending(S \ {a}) \o <<a>>

\* sorted(S) for a set of tuples
RECURSIVE SortedTuples(_)
SortedTuples(S) ==
    IF S = {} THEN <<>>
    ELSE LET a == MinTuple(S) IN <<a>> \o SortedTuples(S \ {a})

QKey(entry) == <<entry.year, entry.quarter>>

\* one step of the stable sort: entry goes after every record whose key is
\* not greater than its own
RECURSIVE InsertStable(_, _)
InsertStable(sorted, entry) ==
    IF sorted = <<>> THEN <<entry>>
    ELSE IF TupleLess(QKey(entry), QKey(sorted[Len(sorted)]))
         THEN InsertStable(SubSeq(sorted, 1, Len(sorted) - 1), entry)
                  \o <<sorted[Len(sorted)]>>
         ELSE sorted \o <<entry>>

\* sorted(quarterly_prices, key=lambda x: (x['year'], x['quarter']))
RECURSIVE SortedPrices(_)
SortedPrices(qs) ==
    IF qs = <<>> THEN <<>>
    ELSE InsertStable(SortedPrices(SubSeq(qs, 1, Len(qs) - 1)), qs[Len(qs)])

-----------------------------------------------------------------------------
(* Text.  A str is a sequence of one-character strings. *)

\* None, and a value that is not None
None == <<>>

Some(v) == <<v>>

Digits == {"0", "1", "2", "3", "4", "5", "6", "7", "8", "9"}

UpperLetters ==
    <<"A", "B", "C", "D", "E", "F", "G", "H", "I", "J", "K", "L", "M",
      "N", "O", "P", "Q", "R", "S", "T", "U", "V", "W", "X", "Y", "Z">>

LowerLetters ==
    <<"a", "b", "c", "d", "e", "f", "g", "h", "i", "j", "k", "l", "m",
      "n", "o", "p", "q", "r", "s", "t", "u", "v", "w", "x", "y", "z">>

Range(f) == {f[i] : i \in DOMAIN f}

\* \w, \s
WordChars == Digits \cup Range(UpperLetters) \cup Range(LowerLetters) \cup {"_"}

Whitespace == {" ", "\t"}

\* str.lower() of one character
LowerChar(c) ==
    IF c \in Range(UpperLetters)
    THEN LowerLetters[CHOOSE i \in DOMAIN UpperLetters : UpperLetters[i] = c]
    ELSE c

\* str.lower()
Lower(s) == [i \in DOMAIN s |-> LowerChar(s[i])]

\* str.strip()
RECURSIVE Strip(_)
Strip(s) ==
    IF s = <<>> THEN s
    ELSE IF s[1] \in Whitespace THEN Strip(Tail(s))
    ELSE IF s[Len(s)] \in Whitespace THEN Strip(SubSeq(s, 1, Len(s) - 1))
    ELSE s

\* sub in s
Contains(s, sub) ==
    \E p \in 1 .. (Len(s) - Len(sub) + 1) : SubSeq(s, p, p + Len(sub) - 1) = sub

DigitValue(c) ==
    CASE c = "0" -> 0 [] c = "1" -> 1 [] c = "2" -> 2 [] c = "3" -> 3
      [] c = "4" -> 4 [] c = "5" -> 5 [] c = "6" -> 6 [] c = "7" -> 7
      [] c = "8" -> 8 [] c = "9" -> 9

\* int(s) of a string of decimal digits
RECURSIVE IntOfDigits(_)
IntOfDigits(s) ==
    IF s = <<>> THEN 0
    ELSE 10 * IntOfDigits(SubSeq(s, 1, Len(s) - 1)) + DigitValue(s[Len(s)])

\* the last index of the longest run of characters of class cls that starts
\* at p (p - 1 when s[p] is not of the class): a greedy cls*
RECURSIVE RunEnd(_, _, _)
RunEnd(s, p, cls) ==
    IF p <= Len(s) /\ s[p] \in cls THEN RunEnd(s, p + 1, cls) ELSE p - 1

\* \b at position p: between s[p - 1] and s[p]
WordBoundary(s, p) ==
    (p > 1 /\ s[p - 1] \in WordChars) # (p <= Len(s) /\ s[p] \in WordChars)

\* 20\d{2} at position p
YearAt(s, p) ==
    /\ p + 3 <= Len(s)
    /\ s[p] = "2"
    /\ s[p + 1] = "0"
    /\ s[p + 2] \in Digits
    /\ s[p + 3] \in Digits

Min(S) == CHOOSE a \in S : \A b \in S : a <= b

-----------------------------------------------------------------------------
(* _parse_period *)

\* roman_to_int
RomanToInt(q_str) ==
    CASE q_str = <<"i">> -> Some(1)
      [] q_str = <<"i", "i">> -> Some(2)
      [] q_str = <<"i", "i", "i">> -> Some(3)
      [] q_str = <<"i", "v">> -> Some(4)
      [] OTHER -> None

\* re.search(r'\b(20\d{2})\b', period_str): the positions that match
YearMatches(s) ==
    {p \in 1 .. Len(s) :
        WordBoundary(s, p) /\ YearAt(s, p) /\ WordBoundary(s, p + 4)}

ParseYear(s) ==
    IF YearMatches(s) = {} THEN None
    ELSE LET p == Min(YearMatches(s))
         IN  Some(IntOfDigits(SubSeq(s, p, p + 3)))

RomanChars == {"i", "v", "I", "V"}

\* re.search(r'\b([ivIV]+)\s+(?:20\d{2})', period_str): the positions that
\* match.  The group is the whole run of numerals: a shorter group is
\* followed by a numeral, which is no whitespace.
RomanMatches(s) ==
    {p \in 1 .. Len(s) :
        /\ WordBoundary(s, p)
        /\ s[p] \in RomanChars
        /\ LET e == RunEnd(s, p, RomanChars)
               w == RunEnd(s, e + 1, Whitespace)
           IN  w > e /\ YearAt(s, w + 1)}

ParseRoman(s) ==
    IF RomanMatches(s) = {} THEN None
    ELSE LET p == Min(RomanMatches(s))
         IN  RomanToInt(Lower(SubSeq(s, p, RunEnd(s, p, RomanChars))))

\* re.search(r'q([1-4])', period_lower)
QMatches(lower) ==
    {p \in 1 .. (Len(lower) - 1) :
        lower[p] = "q" /\ lower[p + 1] \in {"1", "2", "3", "4"}}

ParseQ(lower) ==
    IF QMatches(lower) = {} THEN None
    ELSE Some(DigitValue(lower[Min(QMatches(lower)) + 1]))

KwChars == {"1", "2", "3", "4", "i", "v", "V", "I"}

\* mutant: no whitespace allowed before 'kw' (r'([1-4ivVI]+)kw')
KwMatchesNoSpace(lower) ==
    {p \in 1 .. Len(lower) :
        /\ lower[p] \in KwChars
        /\ LET e == RunEnd(lower, p, KwChars)
           IN  /\ e + 2 <= Len(lower)
               /\ lower[e + 1] = "k"
               /\ lower[e + 2] = "w"}

\* re.search(r'([1-4ivVI]+)\s*kw', period_lower): the positions that match
KwMatches(lower) ==
    {p \in 1 .. Len(lower) :
        /\ lower[p] \in KwChars
        /\ LET e == RunEnd(lower, p, KwChars)
               w == RunEnd(lower, e + 1, Whitespace)
           IN  /\ w + 2 <= Len(lower)
               /\ lower[w + 1] = "k"
               /\ lower[w + 2] = "w"}

\* the quarter of the kw group: roman_to_int, else int(q_str), else nothing
KwQuarter(q_str) ==
    IF RomanToInt(Lower(q_str)) # None THEN RomanToInt(Lower(q_str))
    ELSE IF \A i \in DOMAIN q_str : q_str[i] \in Digits
         THEN Some(IntOfDigits(q_str))
         ELSE None

ParseKw(lower) ==
    IF KwMatches(lower) = {} THEN None
    ELSE LET p == Min(KwMatches(lower))
         IN  KwQuarter(SubSeq(lower, p, RunEnd(lower, p, KwChars)))

ParseQuarterKwFirst(period_str) ==
    LET period_lower == Lower(period_str)
        q1 == ParseRoman(period_str)
        q2 == IF q1 = None /\ Contains(period_lower, <<"k", "w">>)
              THEN ParseKw(period_lower) ELSE q1
        q3 == IF q2 = None /\ Contains(period_lower, <<"q">>)
              THEN ParseQ(period_lower) ELSE q2
    IN  q3

\* the quarter: the first of the three formats that resolves it
ParseQuarter(period_str) ==
    LET period_lower == Lower(period_str)
        q1 == ParseRoman(period_str)
        q2 == IF q1 = None /\ Contains(period_lower, <<"q">>)
              THEN ParseQ(period_lower) ELSE q1
        q3 == IF q2 = None /\ Contains(period_lower, <<"k", "w">>)
              THEN ParseKw(period_lower) ELSE q2
    IN  q3

\* (year, quarter), each None when not found
ParsePeriod(period_str) ==
    [year |-> ParseYear(period_str), quarter |-> ParseQuarter(period_str)]

-----------------------------------------------------------------------------
(* extract_warsaw_quarterly_prices.  A sheet is a sequence of rows, a row a
   sequence of cells, a cell None, a str or a number. *)

EmptyCell == [kind |-> "none", text |-> <<>>, num |-> 0]

StrCell(s) == [kind |-> "str", text |-> s, num |-> 0]

NumCell(v) == [kind |-> "num", text |-> <<>>, num |-> v]

\* the truth value of a cell: None, '' and 0 are false
Truthy(cell) ==
    \/ cell.kind = "str" /\ cell.text # <<>>
    \/ cell.kind = "num" /\ cell.num # 0

Warsza == <<"w", "a", "r", "s", "z", "a">>

\* cell and 'warsza' in str(cell).lower(); the str of a number holds no letter
\* of 'warsza'
IsWarsawCell(cell) ==
    Truthy(cell) /\ cell.kind = "str" /\ Contains(Lower(cell.text), Warsza)

AnyWarsawCell(row) == \E idx \in DOMAIN row : IsWarsawCell(row[idx])

\* mutant: every row of the sheet is scanned (iter_rows without max_row)
HeaderRowAnywhere(sheet) ==
    LET rows == {r \in 1 .. Len(sheet) : AnyWarsawCell(sheet[r])}
    IN  IF rows = {} THEN None ELSE Some(Min(rows))

\* mutant: the last such row (the scan does not break at the first)
HeaderRowLast(sheet) ==
    LET rows == {r \in 1 .. Len(sheet) : r <= ScanRows /\ AnyWarsawCell(sheet[r])}
    IN  IF rows = {} THEN None
        ELSE Some(CHOOSE r \in rows : \A o \in rows : o <= r)

\* the first row among the first ScanRows rows with a Warsaw cell, else None
HeaderRow(sheet) ==
    LET rows == {r \in 1 .. Len(sheet) : r <= ScanRows /\ AnyWarsawCell(sheet[r])}
    IN  IF rows = {} THEN None ELSE Some(Min(rows))

\* the 1-based index of the first Warsaw cell of the header row
WarsawCol(row) == Min({idx \in DOMAIN row : IsWarsawCell(row[idx])})

\* float(price_cell): a number, or a str in the plain form digits[.dd];
\* None stands for ValueError.  The model draws no str in another form that
\* float() accepts (exponent, inf, nan, sign, underscores).
FloatOfText(s) ==
    LET t == Strip(s)
        dot == {p \in DOMAIN t : t[p] = "."}
        whole == IF dot = {} THEN t ELSE SubSeq(t, 1, Min(dot) - 1)
        frac == IF dot = {} THEN <<>> ELSE SubSeq(t, Min(dot) + 1, Len(t))
        frac2 == frac \o SubSeq(<<"0", "0">>, 1, 2 - Len(frac))
    IN  IF /\ whole # <<>>
           /\ Len(frac) <= 2
           /\ \A i \in DOMAIN whole : whole[i] \in Digits
           /\ \A i \in DOMAIN frac : frac[i] \in Digits
        THEN Some((IntOfDigits(whole) * 100 + IntOfDigits(frac2)) * SubCent)
        ELSE None

FloatOfCell(cell) ==
    IF cell.kind = "num" THEN Some(cell.num)
    ELSE IF cell.kind = "str" THEN FloatOfText(cell.text)
    ELSE None

\* _parse_period(str(period_cell).strip()); the str of a number has neither
\* whitespace nor 'q' nor 'kw', so its quarter is None
PeriodOfCell(cell) ==
    IF cell.kind = "str" THEN ParsePeriod(Strip(cell.text))
    ELSE [year |-> None, quarter |-> None]

\* the records one data row appends to warsaw_prices: one or none
RowRecords(row, warsaw_col) ==
    LET period_cell == row[1]
        price_cell == row[warsaw_col]
        period == PeriodOfCell(period_cell)
        price == FloatOfCell(price_cell)
    IN  IF ~Truthy(period_cell) \/ ~Truthy(price_cell) THEN <<>>
        ELSE IF period.year = None \/ period.quarter = None THEN <<>>
        ELSE IF price = None THEN <<>>
        ELSE <<[year |-> period.year[1], quarter |-> period.quarter[1],
                priceM2 |-> price[1]]>>

\* for row in sheet.iter_rows(min_row=header_row + 1), from row_idx on
RECURSIVE DataRecords(_, _, _)
DataRecords(sheet, warsaw_col, row_idx) ==
    IF row_idx > Len(sheet) THEN <<>>
    ELSE RowRecords(sheet[row_idx], warsaw_col)
             \o DataRecords(sheet, warsaw_col, row_idx + 1)

\* the result: raised (ValueError, Warsaw column not found) or the records
ExtractWarsawQuarterlyPrices(sheet) ==
    LET header_row == HeaderRow(sheet)
    IN  IF header_row = None
        THEN [raised |-> TRUE, records |-> <<>>]
        ELSE [raised |-> FALSE,
              records |-> DataRecords(sheet, WarsawCol(sheet[header_row[1]]),
                                      header_row[1] + 1)]

-----------------------------------------------------------------------------
(* interpolate_quarterly_to_monthly *)

\* mutant: the quarter taken as 0-based
StartMonthZeroBased(quarter) == quarter * 3 + 1

\* start_month = (quarter - 1) * 3 + 1
StartMonth(quarter) == (quarter - 1) * 3 + 1

\* mutant: only the first two months of the quarter are written (range(2))
RECURSIVE BroadcastEntryTwoMonths(_, _, _)
BroadcastEntryTwoMonths(d, entry, month_offset) ==
    IF month_offset >= 2 THEN d
    ELSE LET month == StartMonth(entry.quarter) + month_offset
             d2 == IF month <= 12
                   THEN DictSet(d, <<entry.year, month>>, entry.priceM2)
                   ELSE d
         IN  BroadcastEntryTwoMonths(d2, entry, month_offset + 1)

\* for month_offset in range(3): monthly_prices[(year, month)] = price
RECURSIVE BroadcastEntry(_, _, _)
BroadcastEntry(d, entry, month_offset) ==
    IF month_offset >= 3 THEN d
    ELSE LET month == StartMonth(entry.quarter) + month_offset
             d2 == IF month <= 12
                   THEN DictSet(d, <<entry.year, month>>, entry.priceM2)
                   ELSE d
         IN  BroadcastEntry(d2, entry, month_offset + 1)

\* first pass: for entry in sorted_prices, from index i on
RECURSIVE FirstPass(_, _, _)
FirstPass(d, sorted, i) ==
    IF i > Len(sorted) THEN d
    ELSE FirstPass(BroadcastEntry(d, sorted[i], 0), sorted, i + 1)

\* the flat index of the middle month of a quarter
MidMonth(year, quarter) == (year - EpochYear) * 12 + (quarter - 1) * 3 + 2

\* mutant: the year taken from the flat index itself
CalcYearNoOffset(total_months) == EpochYear + (total_months \div 12)

\* calc_year and calc_month of a flat month index
CalcYear(total_months) == EpochYear + ((total_months - 1) \div 12)

CalcMonth(total_months) == ((total_months - 1) % 12) + 1

\* mutant: the line drawn away from the second anchor
InterpolatedPriceBackwards(price1, price2, step, num_steps) ==
    Round2Ratio(price1 * num_steps - (price2 - price1) * step, num_steps)

\* mutant: one step too many between the anchors
InterpolatedPriceExtraStep(price1, price2, step, num_steps) ==
    Round2Ratio(price1 * (num_steps + 1) + (price2 - price1) * step,
                num_steps + 1)

\* round(price1 + (price2 - price1) * (step / num_steps), 2)
InterpolatedPrice(price1, price2, step, num_steps) ==
    Round2Ratio(price1 * num_steps + (price2 - price1) * step, num_steps)

\* mutant: the interpolated value written whatever the dict holds
WriteInterpolatedAlways(d, key, value) == DictSet(d, key, value)

\* if key not in monthly_prices: monthly_prices[key] = round(.., 2)
WriteInterpolated(d, key, value) ==
    IF key \in DOMAIN d THEN d ELSE DictSet(d, key, value)

\* the body of `for step in range(1, num_steps)`, from step on
RECURSIVE InterpolateSteps(_, _, _, _)
InterpolateSteps(d, entry, next_entry, step) ==
    LET month1 == MidMonth(entry.year, entry.quarter)
        month2 == MidMonth(next_entry.year, next_entry.quarter)
        num_steps == month2 - month1
        total_months == month1 + step
        calc_year == CalcYear(total_months)
        calc_month == CalcMonth(total_months)
        value == InterpolatedPrice(entry.priceM2, next_entry.priceM2,
                                   step, num_steps)
        d2 == IF calc_month >= 1 /\ calc_month <= 12
              THEN WriteInterpolated(d, <<calc_year, calc_month>>, value)
              ELSE d
    IN  IF step >= num_steps THEN d
        ELSE InterpolateSteps(d2, entry, next_entry, step + 1)

\* mutant: a gap of two quarters not bridged
NeedsBridgeWide(entry, next_entry) ==
    MidMonth(next_entry.year, next_entry.quarter)
        > MidMonth(entry.year, entry.quarter) + 6

\* if month2 > month1 + 3
NeedsBridge(entry, next_entry) ==
    MidMonth(next_entry.year, next_entry.quarter)
        > MidMonth(entry.year, entry.quarter) + 3

\* second pass: for i, entry in enumerate(sorted_prices[:-1]), from i on
RECURSIVE SecondPass(_, _, _)
SecondPass(d, sorted, i) ==
    IF i >= Len(sorted) THEN d
    ELSE LET d2 == IF NeedsBridge(sorted[i], sorted[i + 1])
                   THEN InterpolateSteps(d, sorted[i], sorted[i + 1], 1)
                   ELSE d
         IN  SecondPass(d2, sorted, i + 1)

\* the dict monthly_prices after both passes
MonthlyDict(qs) ==
    LET sorted == SortedPrices(qs)
    IN  SecondPass(FirstPass(EmptyDict, sorted, 1), sorted, 1)

\* mutant: the prices of the dict emitted as they are
ResultListUnrounded(d) ==
    LET keys == SortedTuples(DOMAIN d)
    IN  [i \in 1 .. Len(keys) |->
            [year |-> keys[i][1], month |-> keys[i][2],
             priceM2_pln |-> d[keys[i]]]]

\* for (year, month), price in sorted(monthly_prices.items())
ResultList(d) ==
    LET keys == SortedTuples(DOMAIN d)
    IN  [i \in 1 .. Len(keys) |->
            [year |-> keys[i][1], month |-> keys[i][2],
             priceM2_pln |-> Round2(d[keys[i]])]]

InterpolateQuarterlyToMonthly(qs) ==
    IF qs = <<>> THEN <<>> ELSE ResultList(MonthlyDict(qs))

-----------------------------------------------------------------------------
(* load_gold.  The gold file is missing, malformed, or a list of
   entries {year, month, price}; gold prices are in price units per gram. *)

\* gold[(entry['year'], entry['month'])] = entry['price'], from i on
RECURSIVE GoldDict(_, _, _)
GoldDict(d, gold_data, i) ==
    IF i > Len(gold_data) THEN d
    ELSE GoldDict(DictSet(d, <<gold_data[i].year, gold_data[i].month>>,
                          gold_data[i].price), gold_data, i + 1)

\* raised: FileNotFoundError, JSONDecodeError or KeyError, re-raised
LoadGoldPrices(gold_file) ==
    IF gold_file.state # "ok"
    THEN [raised |-> TRUE, gold_prices |-> EmptyDict]
    ELSE [raised |-> FALSE,
          gold_prices |-> GoldDict(EmptyDict, gold_file.entries, 1)]

-----------------------------------------------------------------------------
(* convert_to_gold_equivalent.  priceM2_gold is None or Some(hundredths of a
   gram). *)

\* mutant: the quotient rounded to 1 decimal (round(.., 1))
GoldQuotientOneDecimal(price_pln, gold_price) ==
    IF gold_price > 0
    THEN 10 * RoundHalfEven(price_pln * 10, gold_price)
    ELSE 10 * RoundHalfEven((0 - price_pln) * 10, 0 - gold_price)

\* round(price_pln / gold_price, 2), gold_price not 0
GoldQuotient(price_pln, gold_price) ==
    IF gold_price > 0
    THEN RoundHalfEven(price_pln * 100, gold_price)
    ELSE RoundHalfEven((0 - price_pln) * 100, 0 - gold_price)

\* the converted value of one entry: a key of the table is divided by its
\* gold price, whatever that price is
PriceGold(entry, gold) ==
    LET key == <<entry.year, entry.month>>
    IN  IF key \in DOMAIN gold
        THEN Some(GoldQuotient(entry.priceM2_pln, gold[key]))
        ELSE None

\* the record appended to result for one entry
ConvertEntry(entry, gold) ==
    [year |-> entry.year, month |-> entry.month,
     priceM2_pln |-> entry.priceM2_pln,
     priceM2_gold |-> PriceGold(entry, gold)]

\* price_pln / gold_price raises ZeroDivisionError for some entry
DivisionByZero(monthly_prices, gold) ==
    \E i \in DOMAIN monthly_prices :
        LET key == <<monthly_prices[i].year, monthly_prices[i].month>>
        IN  key \in DOMAIN gold /\ gold[key] = 0

\* missing_months
MissingMonths(monthly_prices, gold) ==
    {<<monthly_prices[i].year, monthly_prices[i].month>> :
        i \in {j \in DOMAIN monthly_prices :
                 <<monthly_prices[j].year, monthly_prices[j].month>>
                     \notin DOMAIN gold}}

\* mutant: the entries without a gold price left out of the result
RECURSIVE ConvertedOnly(_, _)
ConvertedOnly(monthly_prices, gold) ==
    IF monthly_prices = <<>> THEN <<>>
    ELSE LET e == ConvertEntry(monthly_prices[1], gold)
         IN  (IF e.priceM2_gold = None THEN <<>> ELSE <<e>>)
                 \o ConvertedOnly(Tail(monthly_prices), gold)

ConvertDroppingMissing(monthly_prices, gold) ==
    IF DivisionByZero(monthly_prices, gold)
    THEN [raised |-> TRUE, result |-> <<>>]
    ELSE [raised |-> FALSE, result |-> ConvertedOnly(monthly_prices, gold)]

\* the result: raised (ZeroDivisionError) or the enriched list
ConvertToGoldEquivalent(monthly_prices, gold) ==
    IF DivisionByZero(monthly_prices, gold)
    THEN [raised |-> TRUE, result |-> <<>>]
    ELSE [raised |-> FALSE,
          result |-> [i \in DOMAIN monthly_prices |->
                         ConvertEntry(monthly_prices[i], gold)]]

-----------------------------------------------------------------------------
(* The output file *)

AbsentFile == [state |-> "absent", records |-> <<>>]

\* what an earlier run left: one complete record
OldFile ==
    [state |-> "valid",
     records |-> <<[year |-> FirstYear, month |-> 12,
                    priceM2_pln |-> 10000 * SubCent,
                    priceM2_gold |-> Some(4000)]>>]

\* open(filepath, 'w') and json.dump(data, f) both done
WrittenFile(data) == [state |-> "valid", records |-> data]

\* open(filepath, 'w') truncated the file and json.dump stopped after k records
PartialFile(data, k) == [state |-> "partial", records |-> SubSeq(data, 1, k)]

-----------------------------------------------------------------------------
(* The interpolator applied to every bounded quarterly input *)

\* the variables of the parser, the extractor and update_all_data, which
\* the runs of other functions leave alone
IdleParser ==
    /\ label = <<>>
    /\ parsed = None

IdleExtractor == header = None

IdleUpdater ==
    /\ verbose = FALSE
    /\ skip_validation = FALSE
    /\ runs = <<>>
    /\ validated = <<>>
    /\ success = TRUE
    /\ all_secondary_success = TRUE
    /\ returned = None

IdleFetcher ==
    /\ start_year = 0
    /\ today = 0
    /\ current_start = 0
    /\ requests = <<>>

\* the variables of main that a function-level run leaves alone
IdleMain ==
    /\ excel_data = <<>>
    /\ outfile = AbsentFile
    /\ outfile_before = AbsentFile
    /\ exit_code = None
    /\ error = "none"

InitInterp ==
    /\ pc = "input"
    /\ \E n \in 1 .. MaxRecords : quarterly \in [1 .. n -> QuarterlyRecord]
    /\ monthly = <<>>
    /\ gold_prices = EmptyDict
    /\ enriched = <<>>
    /\ IdleMain
    /\ IdleParser
    /\ IdleExtractor
    /\ IdleUpdater
    /\ IdleFetcher

Interpolate ==
    /\ pc = "input"
    /\ monthly' = InterpolateQuarterlyToMonthly(quarterly)
    /\ pc' = "interpolated"
    /\ UNCHANGED <<excel_data, quarterly, gold_prices, enriched, outfile,
                   outfile_before, exit_code, error>>
    /\ UNCHANGED <<parserVars, extractVars, updaterVars, fetcherVars>>

NextInterp == Interpolate

SpecInterp == InitInterp /\ [][NextInterp]_vars

-----------------------------------------------------------------------------
(* interpolate_quarterly_to_monthly applied to two anchors of any years
   FirstAnchorYear .. FirstAnchorYear + NumAnchorYears - 1, the second one
   2 .. MaxGapQuarters quarters after the first, at 100.00 and 160.00 PLN *)

AnchorKeys ==
    {<<y, q>> : y \in FirstAnchorYear .. (FirstAnchorYear + NumAnchorYears - 1),
                q \in 1 .. 4}

\* the (year, quarter) lying gap quarters after k
QuartersAfter(k, gap) ==
    <<k[1] + ((k[2] - 1 + gap) \div 4), ((k[2] - 1 + gap) % 4) + 1>>

InitEpoch ==
    /\ pc = "input"
    /\ \E k \in AnchorKeys, gap \in 2 .. MaxGapQuarters :
          /\ QuartersAfter(k, gap) \in AnchorKeys
          /\ quarterly =
                 <<[year |-> k[1], quarter |-> k[2],
                    priceM2 |-> 10000 * SubCent],
                   [year |-> QuartersAfter(k, gap)[1],
                    quarter |-> QuartersAfter(k, gap)[2],
                    priceM2 |-> 16000 * SubCent]>>
    /\ monthly = <<>>
    /\ gold_prices = EmptyDict
    /\ enriched = <<>>
    /\ IdleMain
    /\ IdleParser
    /\ IdleExtractor
    /\ IdleUpdater
    /\ IdleFetcher

SpecEpoch == InitEpoch /\ [][NextInterp]_vars

-----------------------------------------------------------------------------
(* _parse_period applied to every bounded period label *)

RomanNumeral(n) ==
    CASE n = 1 -> <<"I">>
      [] n = 2 -> <<"I", "I">>
      [] n = 3 -> <<"I", "I", "I">>
      [] n = 4 -> <<"I", "V">>

DigitChar(n) == CHOOSE c \in Digits : DigitValue(c) = n

\* the text of the year 2000 + 10 * d1 + d2
YearText(d1, d2) == <<"2", "0", DigitChar(d1), DigitChar(d2)>>

Kw == <<" ", "k", "w">>

KwDot == <<" ", "k", "w", ".">>

\* the labels the docstring lists: 'R Y', 'Qn Y', 'n kw. Y', 'n kw Y',
\* 'R kw. Y' and 'R kw Y'
DocumentedForms == {"R Y", "Qn Y", "n kw. Y", "n kw Y", "R kw. Y", "R kw Y"}

DocumentedLabel(form, n, d1, d2) ==
    LET Y == <<" ">> \o YearText(d1, d2)
    IN  CASE form = "R Y" -> RomanNumeral(n) \o Y
          [] form = "Qn Y" -> <<"Q", DigitChar(n)>> \o Y
          [] form = "n kw. Y" -> <<DigitChar(n)>> \o KwDot \o Y
          [] form = "n kw Y" -> <<DigitChar(n)>> \o Kw \o Y
          [] form = "R kw. Y" -> RomanNumeral(n) \o KwDot \o Y
          [] form = "R kw Y" -> RomanNumeral(n) \o Kw \o Y

DocumentedLabels ==
    {DocumentedLabel(form, n, d1, d2) :
        form \in DocumentedForms, n \in 1 .. 4, d1 \in 0 .. 9, d2 \in 0 .. 9}

\* every text of at most MaxLabelText characters of the alphabet, alone or
\* with the year 2021 before or after it, with or without a space between
LabelAlphabet == {"1", "4", "I", "V", "k", "w", "Q", " "}

Text2021 == YearText(2, 1)

YearPlacements == {"none", "after", "after_joined", "before", "before_joined"}

PlaceYear(text, placement) ==
    CASE placement = "none" -> text
      [] placement = "after" -> text \o <<" ">> \o Text2021
      [] placement = "after_joined" -> text \o Text2021
      [] placement = "before" -> Text2021 \o <<" ">> \o text
      [] placement = "before_joined" -> Text2021 \o text

\* labels that carry up to three quarter notations at once: a Roman numeral
\* r before the year, 'Qn' and 'm kw', in every order (0: notation absent)
PriorityPiece(k, r, n, m) ==
    CASE k = 1 -> IF r = 0 THEN Text2021
                  ELSE RomanNumeral(r) \o <<" ">> \o Text2021
      [] k = 2 -> IF n = 0 THEN <<>> ELSE <<"Q", DigitChar(n)>>
      [] k = 3 -> IF m = 0 THEN <<>> ELSE <<DigitChar(m)>> \o Kw

PieceOrders ==
    {o \in [1 .. 3 -> 1 .. 3] : \A i, j \in 1 .. 3 : o[i] = o[j] => i = j}

PriorityLabel(o, r, n, m) ==
    PriorityPiece(o[1], r, n, m) \o <<" ">> \o PriorityPiece(o[2], r, n, m)
        \o <<" ">> \o PriorityPiece(o[3], r, n, m)

PriorityLabels ==
    {PriorityLabel(o, r, n, m) :
        o \in PieceOrders, r \in 0 .. 4, n \in 0 .. 4, m \in 0 .. 4}

InitParse ==
    /\ pc = "parse_input"
    /\ \/ label \in DocumentedLabels
       \/ label \in PriorityLabels
       \/ \E n \in 0 .. MaxLabelText, placement \in YearPlacements :
             \E text \in [1 .. n -> LabelAlphabet] :
                 label = PlaceYear(text, placement)
    /\ parsed = None
    /\ quarterly = <<>>
    /\ monthly = <<>>
    /\ gold_prices = EmptyDict
    /\ enriched = <<>>
    /\ IdleMain
    /\ IdleExtractor
    /\ IdleUpdater
    /\ IdleFetcher

\* year, quarter = self._parse_period(period_str)
ParsePeriodReturns ==
    /\ pc = "parse_input"
    /\ parsed' = ParsePeriod(label)
    /\ pc' = "parse_returned"
    /\ UNCHANGED <<label, excel_data, quarterly, monthly, gold_prices,
                   enriched, outfile, outfile_before, exit_code, error>>
    /\ UNCHANGED <<extractVars, updaterVars, fetcherVars>>

NextParse == ParsePeriodReturns

SpecParse == InitParse /\ [][NextParse]_vars

-----------------------------------------------------------------------------
(* The converter applied to every bounded monthly series and gold table *)

ConvKeys == {<<ConvYear, m>> : m \in 1 .. NumConvMonths}

\* 9500.00 and 9700.00 PLN
PlnPrices == {950000 * SubCent, 970000 * SubCent}

\* 250.00 and 255.00 PLN per gram, 0, and a negative price
GoldPriceValues == {25000 * SubCent, 25500 * SubCent, 0, 0 - 25000 * SubCent}

MonthlyRecord ==
    {[year |-> k[1], month |-> k[2], priceM2_pln |-> p] :
        k \in ConvKeys, p \in PlnPrices}

InitConvert ==
    /\ pc = "convert_input"
    /\ quarterly = <<>>
    /\ \E n \in 0 .. MaxSeries : monthly \in [1 .. n -> MonthlyRecord]
    /\ \E K \in SUBSET ConvKeys : gold_prices \in [K -> GoldPriceValues]
    /\ enriched = <<>>
    /\ IdleMain
    /\ IdleParser
    /\ IdleExtractor
    /\ IdleUpdater
    /\ IdleFetcher

\* convert_to_gold_equivalent returns
ConvertReturns ==
    /\ pc = "convert_input"
    /\ ~ConvertToGoldEquivalent(monthly, gold_prices).raised
    /\ enriched' = ConvertToGoldEquivalent(monthly, gold_prices).result
    /\ pc' = "convert_returned"
    /\ UNCHANGED <<excel_data, quarterly, monthly, gold_prices, outfile,
                   outfile_before, exit_code, error>>
    /\ UNCHANGED <<parserVars, extractVars, updaterVars, fetcherVars>>

\* convert_to_gold_equivalent raises ZeroDivisionError
ConvertRaises ==
    /\ pc = "convert_input"
    /\ ConvertToGoldEquivalent(monthly, gold_prices).raised
    /\ error' = "ZeroDivisionError"
    /\ pc' = "convert_raised"
    /\ UNCHANGED <<excel_data, quarterly, monthly, gold_prices, enriched,
                   outfile, outfile_before, exit_code>>
    /\ UNCHANGED <<parserVars, extractVars, updaterVars, fetcherVars>>

NextConvert == ConvertReturns \/ ConvertRaises

SpecConvert == InitConvert /\ [][NextConvert]_vars

-----------------------------------------------------------------------------
(* main: fetch, extract, interpolate, load gold prices, convert, report,
   save.  The sheet and the gold file are what the run finds. *)

Label_Q1_2021 == <<"Q", "1", " ", "2", "0", "2", "1">>

Label_Q2_2021 == <<"Q", "2", " ", "2", "0", "2", "1">>

Label_12kw_2021 == <<"1", "2", " ", "k", "w", " ", "2", "0", "2", "1">>

Label_Q1 == <<"Q", "1">>

PeriodCells ==
    {StrCell(Label_Q1_2021), StrCell(Label_Q2_2021),
     StrCell(Label_12kw_2021), StrCell(Label_Q1)}

\* 9500.0, 9700.0, an empty cell and the text 'n/a'
PriceCells ==
    {NumCell(950000 * SubCent), NumCell(970000 * SubCent), EmptyCell,
     StrCell(<<"n", "/", "a">>)}

Warszawa == <<"W", "a", "r", "s", "z", "a", "w", "a">>

Krakow == <<"K", "r", "a", "k", "o", "w">>

\* column 1 holds the period, the last column the Warsaw prices
BlankRow == [c \in 1 .. NumCols |-> EmptyCell]

CityRow(with_warsaw) ==
    [c \in 1 .. NumCols |->
        IF c = 1 THEN EmptyCell
        ELSE IF c = NumCols /\ with_warsaw THEN StrCell(Warszawa)
        ELSE StrCell(Krakow)]

DataRow(period_cell, price_cell) ==
    [c \in 1 .. NumCols |->
        IF c = 1 THEN period_cell
        ELSE IF c = NumCols THEN price_cell
        ELSE NumCell(800000 * SubCent)]

DataRows == {DataRow(pe, pr) : pe \in PeriodCells, pr \in PriceCells}

\* lead blank rows, the row of city names, the data rows
MakeSheet(lead, with_warsaw, rows) ==
    [i \in 1 .. lead |-> BlankRow] \o <<CityRow(with_warsaw)>> \o rows

\* the city row is row 1, row HeaderLead + 1 or row ScanRows + 1
Leads == {0, HeaderLead, ScanRows}

GoldEntry ==
    [year : {ConvYear}, month : 1 .. 2,
     price : {25000 * SubCent, 25500 * SubCent, 0}]

GoldFiles ==
    {[state |-> "missing", entries |-> <<>>],
     [state |-> "malformed", entries |-> <<>>]}
    \cup {[state |-> "ok", entries |-> e] :
            e \in UNION {[1 .. n -> GoldEntry] : n \in 0 .. MaxGoldEntries}}

Init ==
    /\ pc = "start"
    /\ excel_data = <<>>
    /\ quarterly = <<>>
    /\ monthly = <<>>
    /\ gold_prices = EmptyDict
    /\ enriched = <<>>
    /\ outfile \in {AbsentFile, OldFile}
    /\ outfile_before = outfile
    /\ exit_code = None
    /\ error = "none"
    /\ IdleParser
    /\ IdleExtractor
    /\ IdleUpdater
    /\ IdleFetcher

\* return 1, after an exception or an [ERROR] message
Return1(why) ==
    /\ pc' = "done"
    /\ exit_code' = Some(1)
    /\ error' = why

\* fetch_excel_data raises RequestException
FetchFails ==
    /\ pc = "start"
    /\ Return1("RequestException")
    /\ UNCHANGED <<excel_data, quarterly, monthly, gold_prices, enriched,
                   outfile, outfile_before>>
    /\ UNCHANGED <<parserVars, extractVars, updaterVars, fetcherVars>>

\* fetch_excel_data returns the document
FetchSucceeds ==
    /\ pc = "start"
    /\ \E lead \in Leads, with_warsaw \in BOOLEAN, n \in 0 .. MaxDataRows :
          \E rows \in [1 .. n -> DataRows] :
              excel_data' = MakeSheet(lead, with_warsaw, rows)
    /\ pc' = "fetched"
    /\ UNCHANGED <<quarterly, monthly, gold_prices, enriched, outfile,
                   outfile_before, exit_code, error>>
    /\ UNCHANGED <<parserVars, extractVars, updaterVars, fetcherVars>>

\* extract_warsaw_quarterly_prices raises ValueError: no Warsaw column
ExtractRaises ==
    /\ pc = "fetched"
    /\ ExtractWarsawQuarterlyPrices(excel_data).raised
    /\ Return1("WarsawColumnNotFound")
    /\ UNCHANGED <<excel_data, quarterly, monthly, gold_prices, enriched,
                   outfile, outfile_before>>
    /\ UNCHANGED <<parserVars, extractVars, updaterVars, fetcherVars>>

\* if not quarterly_prices: return 1.  excel_data is read by no later step
\* and is dropped from the state.
ExtractEmpty ==
    /\ pc = "fetched"
    /\ ~ExtractWarsawQuarterlyPrices(excel_data).raised
    /\ ExtractWarsawQuarterlyPrices(excel_data).records = <<>>
    /\ Return1("NoQuarterlyData")
    /\ excel_data' = <<>>
    /\ UNCHANGED <<quarterly, monthly, gold_prices, enriched, outfile,
                   outfile_before>>
    /\ UNCHANGED <<parserVars, extractVars, updaterVars, fetcherVars>>

ExtractSucceeds ==
    /\ pc = "fetched"
    /\ ~ExtractWarsawQuarterlyPrices(excel_data).raised
    /\ ExtractWarsawQuarterlyPrices(excel_data).records # <<>>
    /\ quarterly' = ExtractWarsawQuarterlyPrices(excel_data).records
    /\ excel_data' = <<>>
    /\ pc' = "extracted"
    /\ UNCHANGED <<monthly, gold_prices, enriched, outfile, outfile_before,
                   exit_code, error>>
    /\ UNCHANGED <<parserVars, extractVars, updaterVars, fetcherVars>>

\* if not monthly_prices: return 1
InterpolateEmpty ==
    /\ pc = "extracted"
    /\ InterpolateQuarterlyToMonthly(quarterly) = <<>>
    /\ Return1("NoMonthlyData")
    /\ UNCHANGED <<excel_data, quarterly, monthly, gold_prices, enriched,
                   outfile, outfile_before>>
    /\ UNCHANGED <<parserVars, extractVars, updaterVars, fetcherVars>>

InterpolateSucceeds ==
    /\ pc = "extracted"
    /\ InterpolateQuarterlyToMonthly(quarterly) # <<>>
    /\ monthly' = InterpolateQuarterlyToMonthly(quarterly)
    /\ pc' = "monthly"
    /\ UNCHANGED <<excel_data, quarterly, gold_prices, enriched, outfile,
                   outfile_before, exit_code, error>>
    /\ UNCHANGED <<parserVars, extractVars, updaterVars, fetcherVars>>

\* mutant: the output file is opened for writing before the gold prices
\* are loaded
LoadGoldRaisesAfterOpen ==
    /\ pc = "monthly"
    /\ \E gold_file \in GoldFiles : LoadGoldPrices(gold_file).raised
    /\ Return1("GoldFileError")
    /\ outfile' = PartialFile(<<>>, 0)
    /\ UNCHANGED <<excel_data, quarterly, monthly, gold_prices, enriched,
                   outfile_before>>
    /\ UNCHANGED <<parserVars, extractVars, updaterVars, fetcherVars>>

\* load_gold_prices raises: the file is missing or malformed
LoadGoldRaises ==
    /\ pc = "monthly"
    /\ \E gold_file \in GoldFiles : LoadGoldPrices(gold_file).raised
    /\ Return1("GoldFileError")
    /\ UNCHANGED <<excel_data, quarterly, monthly, gold_prices, enriched,
                   outfile, outfile_before>>
    /\ UNCHANGED <<parserVars, extractVars, updaterVars, fetcherVars>>

LoadGoldSucceeds ==
    /\ pc = "monthly"
    /\ \E gold_file \in GoldFiles :
          /\ ~LoadGoldPrices(gold_file).raised
          /\ gold_prices' = LoadGoldPrices(gold_file).gold_prices
    /\ pc' = "loaded"
    /\ UNCHANGED <<excel_data, quarterly, monthly, enriched, outfile,
                   outfile_before, exit_code, error>>
    /\ UNCHANGED <<parserVars, extractVars, updaterVars, fetcherVars>>

\* convert_to_gold_equivalent raises ZeroDivisionError
ConvertFails ==
    /\ pc = "loaded"
    /\ ConvertToGoldEquivalent(monthly, gold_prices).raised
    /\ Return1("ZeroDivisionError")
    /\ UNCHANGED <<excel_data, quarterly, monthly, gold_prices, enriched,
                   outfile, outfile_before>>
    /\ UNCHANGED <<parserVars, extractVars, updaterVars, fetcherVars>>

ConvertSucceeds ==
    /\ pc = "loaded"
    /\ ~ConvertToGoldEquivalent(monthly, gold_prices).raised
    /\ enriched' = ConvertToGoldEquivalent(monthly, gold_prices).result
    /\ pc' = "converted"
    /\ UNCHANGED <<excel_data, quarterly, monthly, gold_prices, outfile,
                   outfile_before, exit_code, error>>
    /\ UNCHANGED <<parserVars, extractVars, updaterVars, fetcherVars>>

\* complete_entries = [e for e in ... if e['priceM2_gold'] is not None]
CompleteEntries(data) == SelectSeq(data, LAMBDA e : e.priceM2_gold # None)

\* min(...) and max(...) of the complete entries have a value
CanReport(data) == CompleteEntries(data) # <<>>

\* min() of an empty sequence raises ValueError
ReportFails ==
    /\ pc = "converted"
    /\ ~CanReport(enriched)
    /\ Return1("EmptyCompleteEntries")
    /\ UNCHANGED <<excel_data, quarterly, monthly, gold_prices, enriched,
                   outfile, outfile_before>>
    /\ UNCHANGED <<parserVars, extractVars, updaterVars, fetcherVars>>

ReportSucceeds ==
    /\ pc = "converted"
    /\ CanReport(enriched)
    /\ pc' = "reported"
    /\ UNCHANGED <<excel_data, quarterly, monthly, gold_prices, enriched,
                   outfile, outfile_before, exit_code, error>>
    /\ UNCHANGED <<parserVars, extractVars, updaterVars, fetcherVars>>

\* save_json raises before the file is opened for writing (mkdir or open)
SaveCannotOpen ==
    /\ pc = "reported"
    /\ Return1("OSError")
    /\ UNCHANGED <<excel_data, quarterly, monthly, gold_prices, enriched,
                   outfile, outfile_before>>
    /\ UNCHANGED <<parserVars, extractVars, updaterVars, fetcherVars>>

\* mutant: the exception of json.dump is swallowed and main returns 0
SaveBreaksOffSilently ==
    /\ pc = "reported"
    /\ \E k \in 0 .. MaxPartial :
          /\ k < Len(enriched)
          /\ outfile' = PartialFile(enriched, k)
    /\ pc' = "done"
    /\ exit_code' = Some(0)
    /\ UNCHANGED <<excel_data, quarterly, monthly, gold_prices, enriched,
                   outfile_before, error>>
    /\ UNCHANGED <<parserVars, extractVars, updaterVars, fetcherVars>>

\* save_json raises during json.dump: the file is truncated and holds the
\* first k records
SaveBreaksOff ==
    /\ pc = "reported"
    /\ \E k \in 0 .. MaxPartial :
          /\ k < Len(enriched)
          /\ outfile' = PartialFile(enriched, k)
    /\ Return1("OSError")
    /\ UNCHANGED <<excel_data, quarterly, monthly, gold_prices, enriched,
                   outfile_before>>
    /\ UNCHANGED <<parserVars, extractVars, updaterVars, fetcherVars>>

\* mutant: the records are appended to what the file holds (open(.., 'a'))
SaveAppends ==
    /\ pc = "reported"
    /\ outfile' = [state |-> "valid", records |-> outfile.records \o enriched]
    /\ pc' = "done"
    /\ exit_code' = Some(0)
    /\ UNCHANGED <<excel_data, quarterly, monthly, gold_prices, enriched,
                   outfile_before, error>>
    /\ UNCHANGED <<parserVars, extractVars, updaterVars, fetcherVars>>

\* save_json returns; return 0
SaveSucceeds ==
    /\ pc = "reported"
    /\ outfile' = WrittenFile(enriched)
    /\ pc' = "done"
    /\ exit_code' = Some(0)
    /\ UNCHANGED <<excel_data, quarterly, monthly, gold_prices, enriched,
                   outfile_before, error>>
    /\ UNCHANGED <<parserVars, extractVars, updaterVars, fetcherVars>>

Next ==
    \/ FetchFails
    \/ FetchSucceeds
    \/ ExtractRaises
    \/ ExtractEmpty
    \/ ExtractSucceeds
    \/ InterpolateEmpty
    \/ InterpolateSucceeds
    \/ LoadGoldRaises
    \/ LoadGoldSucceeds
    \/ ConvertFails
    \/ ConvertSucceeds
    \/ ReportFails
    \/ ReportSucceeds
    \/ SaveCannotOpen
    \/ SaveBreaksOff
    \/ SaveSucceeds

Spec == Init /\ [][Next]_vars

-----------------------------------------------------------------------------
(* extract_warsaw_quarterly_prices applied to every bounded sheet *)

WARSZAWA == <<"W", "A", "R", "S", "Z", "A", "W", "A">>

\* a row of city names: 'WARSZAWA' in column 2 and 'Warszawa' in the last
\* column as told, another city elsewhere
CityNames(in_second, in_last) ==
    [c \in 1 .. NumCols |->
        IF c = 1 THEN EmptyCell
        ELSE IF c = 2 /\ in_second THEN StrCell(WARSZAWA)
        ELSE IF c = NumCols /\ in_last THEN StrCell(Warszawa)
        ELSE StrCell(Krakow)]

\* the cells of column 2 and of the last column of a data row: 9500.0, 0,
\* an empty cell and the text 'n/a' in column 2; 'n/a', 9700.0, 0 and an
\* empty cell in the last column
PricePairs ==
    {<<NumCell(950000 * SubCent), StrCell(<<"n", "/", "a">>)>>,
     <<NumCell(0), NumCell(970000 * SubCent)>>,
     <<EmptyCell, NumCell(0)>>,
     <<StrCell(<<"n", "/", "a">>), EmptyCell>>}

ExtractPeriodCells ==
    {StrCell(Label_Q1_2021), StrCell(Label_Q2_2021), StrCell(Label_Q1)}

PricedRow(period_cell, pair) ==
    [c \in 1 .. NumCols |->
        IF c = 1 THEN period_cell
        ELSE IF c = 2 THEN pair[1]
        ELSE IF c = NumCols THEN pair[2]
        ELSE NumCell(800000 * SubCent)]

\* a row whose period label '2021' has a year and no quarter, with the
\* price 9500.0 in column 2 and 'n/a' in the last column
YearOnlyRow ==
    PricedRow(StrCell(Text2021),
              <<NumCell(950000 * SubCent), StrCell(<<"n", "/", "a">>)>>)

ExtractRows ==
    {CityNames(a, b) : a \in BOOLEAN, b \in BOOLEAN}
    \cup {PricedRow(pe, pair) : pe \in ExtractPeriodCells, pair \in PricePairs}
    \cup {YearOnlyRow}

\* the rows start at row 1, or at the last row of the scan window
ExtractLeads == {0, ScanRows - 1}

InitExtract ==
    /\ pc = "extract_input"
    /\ \E lead \in ExtractLeads, n \in 0 .. MaxExtractRows :
          \E rows \in [1 .. n -> ExtractRows] :
              excel_data = [i \in 1 .. lead |-> BlankRow] \o rows
    /\ header = None
    /\ quarterly = <<>>
    /\ monthly = <<>>
    /\ gold_prices = EmptyDict
    /\ enriched = <<>>
    /\ outfile = AbsentFile
    /\ outfile_before = AbsentFile
    /\ exit_code = None
    /\ error = "none"
    /\ IdleParser
    /\ IdleUpdater
    /\ IdleFetcher

\* extract_warsaw_quarterly_prices returns warsaw_prices
ExtractReturns ==
    /\ pc = "extract_input"
    /\ ~ExtractWarsawQuarterlyPrices(excel_data).raised
    /\ header' = Some([header_row |-> HeaderRow(excel_data)[1],
                       warsaw_col |->
                           WarsawCol(excel_data[HeaderRow(excel_data)[1]])])
    /\ quarterly' = ExtractWarsawQuarterlyPrices(excel_data).records
    /\ pc' = "extract_returned"
    /\ UNCHANGED <<excel_data, monthly, gold_prices, enriched, outfile,
                   outfile_before, exit_code, error>>
    /\ UNCHANGED <<parserVars, updaterVars, fetcherVars>>

\* extract_warsaw_quarterly_prices raises ValueError: no Warsaw column
ExtractRaisesValueError ==
    /\ pc = "extract_input"
    /\ ExtractWarsawQuarterlyPrices(excel_data).raised
    /\ error' = "ValueError"
    /\ pc' = "extract_raised"
    /\ UNCHANGED <<excel_data, quarterly, monthly, gold_prices, enriched,
                   outfile, outfile_before, exit_code>>
    /\ UNCHANGED <<parserVars, extractVars, updaterVars, fetcherVars>>

NextExtract == ExtractReturns \/ ExtractRaisesValueError

SpecExtract == InitExtract /\ [][NextExtract]_vars

-----------------------------------------------------------------------------
(* fetch_nbp_gold_prices.py: NBPGoldPriceFetcher.fetch_all_data.  A datetime
   is a number of ticks since midnight of 1 January 2013: TicksPerDay ticks
   a day, tick 0 of a day being midnight.  A date is a number of days since
   1 January 2013. *)

IsLeapYear(y) == y % 4 = 0 /\ (y % 100 # 0 \/ y % 400 = 0)

DaysOfYear(y) == IF IsLeapYear(y) THEN 366 ELSE 365

\* the date of 1 January of year y
RECURSIVE JanFirst(_)
JanFirst(y) ==
    IF y = EarliestYear THEN 0
    ELSE IF y > EarliestYear THEN JanFirst(y - 1) + DaysOfYear(y - 1)
    ELSE JanFirst(y + 1) - DaysOfYear(y)

\* datetime(year, month, day) of a date: midnight
Midnight(date) == date * TicksPerDay

\* strftime('%Y-%m-%d'): the date of a datetime
DateOf(dt) == dt \div TicksPerDay

\* timedelta(days=n)
Days(n) == n * TicksPerDay

\* EARLIEST_DATA = datetime(2013, 1, 2)
EARLIEST_DATA == Midnight(1)

Max(a, b) == IF a >= b THEN a ELSE b

\* how a call of fetch_price_range ends: it returns the prices, it returns
\* [] after a RequestException, or another exception leaves it (a reply
\* without the keys 'data' and 'cena')
RequestOutcomes == {"prices", "request_error", "raises"}

\* fetch_price_range(current_start, current_end): the range of the URL
Request(from, to, outcome) ==
    [start |-> DateOf(from), end |-> DateOf(to), outcome |-> outcome]

\* current_end = min(current_start + timedelta(days=93), today)
CurrentEnd == Min({current_start + Days(API_LIMIT_DAYS), today})

InitFetch ==
    /\ pc = "fetch_all_start"
    /\ start_year \in FirstStartYear .. (FirstStartYear + NumStartYears - 1)
    /\ \E date \in FirstToday .. (FirstToday + NumTodays - 1),
          tick \in 0 .. (TicksPerDay - 1) :
          today = Midnight(date) + tick
    /\ current_start = 0
    /\ requests = <<>>
    /\ quarterly = <<>>
    /\ monthly = <<>>
    /\ gold_prices = EmptyDict
    /\ enriched = <<>>
    /\ IdleMain
    /\ IdleParser
    /\ IdleExtractor
    /\ IdleUpdater

\* current_start = max(datetime(start_year, 1, 1), self.EARLIEST_DATA)
FetchAllBegins ==
    /\ pc = "fetch_all_start"
    /\ current_start' = Max(Midnight(JanFirst(start_year)), EARLIEST_DATA)
    /\ pc' = "fetch_loop"
    /\ UNCHANGED <<start_year, today, requests>>
    /\ UNCHANGED <<excel_data, quarterly, monthly, gold_prices, enriched,
                   outfile, outfile_before, exit_code, error>>
    /\ UNCHANGED <<parserVars, extractVars, updaterVars>>

\* one turn of `while current_start < today`: the range is requested and
\* current_start moves to the day after current_end
FetchChunk ==
    /\ pc = "fetch_loop"
    /\ current_start < today
    /\ \E outcome \in RequestOutcomes \ {"raises"} :
          requests' = Append(requests,
                             Request(current_start, CurrentEnd, outcome))
    /\ current_start' = CurrentEnd + Days(1)
    /\ UNCHANGED <<pc, start_year, today>>
    /\ UNCHANGED <<excel_data, quarterly, monthly, gold_prices, enriched,
                   outfile, outfile_before, exit_code, error>>
    /\ UNCHANGED <<parserVars, extractVars, updaterVars>>

\* a turn in which fetch_price_range raises: the exception leaves
\* fetch_all_data
FetchChunkRaises ==
    /\ pc = "fetch_loop"
    /\ current_start < today
    /\ requests' = Append(requests,
                          Request(current_start, CurrentEnd, "raises"))
    /\ pc' = "fetch_raised"
    /\ UNCHANGED <<start_year, today, current_start>>
    /\ UNCHANGED <<excel_data, quarterly, monthly, gold_prices, enriched,
                   outfile, outfile_before, exit_code, error>>
    /\ UNCHANGED <<parserVars, extractVars, updaterVars>>

\* the loop is left; all_prices is sorted and returned
FetchAllReturns ==
    /\ pc = "fetch_loop"
    /\ ~(current_start < today)
    /\ pc' = "fetch_returned"
    /\ UNCHANGED <<start_year, today, current_start, requests>>
    /\ UNCHANGED <<excel_data, quarterly, monthly, gold_prices, enriched,
                   outfile, outfile_before, exit_code, error>>
    /\ UNCHANGED <<parserVars, extractVars, updaterVars>>

NextFetch ==
    \/ FetchAllBegins
    \/ FetchChunk
    \/ FetchChunkRaises
    \/ FetchAllReturns

SpecFetch == InitFetch /\ [][NextFetch]_vars

\* fetch_all_data is sequential code and every request comes back
\* (session.get has timeout=10), so the loop keeps taking its next turn
SpecFetchFair == SpecFetch /\ WF_vars(NextFetch)

-----------------------------------------------------------------------------
(* update_all_data.py: DataUpdater.update_all_data.  A run of a script is
   recorded with the command line it got and how it ended. *)

GoldScript == "fetch_nbp_gold_prices.py"

WarsawScript == "fetch_warsaw_m2_prices.py"

MinWagesScript == "fetch_eurostat_min_wages.py"

AvgWagesScript == "fetch_eurostat_avg_wages.py"

StockScript == "fetch_stock_prices.py"

TimestampScript == "update_timestamp.py"

YearlyArgs == <<"--output", "nbp-gold-prices.json">>

MonthlyArgs == <<"--monthly", "--output", "nbp-gold-prices-monthly.json">>

\* how run_script ends: the script is not found (return False before any
\* process is started), exits with 0, exits with another code, or runs
\* into the timeout
Outcomes == {"not_found", "exit0", "nonzero", "timeout"}

\* cmd after the script path: args, then '-v' if self.verbose
CommandArgs(args) == args \o (IF verbose THEN <<"-v">> ELSE <<>>)

\* how the script and what it reads behave in a run: the script file is
\* missing, or the script does its work, fails at it, or hangs
Behaviours == {"missing", "succeeds", "fails", "hangs"}

\* how run_script ends on these arguments: update_timestamp.py declares no
\* '-v' option, so its argument parser exits with code 2 on it before any
\* work is done
OutcomeOf(script, args, behaviour) ==
    CASE behaviour = "missing" -> "not_found"
      [] behaviour = "fails" -> "nonzero"
      [] behaviour = "hangs" -> "timeout"
      [] behaviour = "succeeds" ->
            IF script = TimestampScript /\ "-v" \in Range(args)
            THEN "nonzero"
            ELSE "exit0"

\* run_script returns True
RunOk(outcome) == outcome = "exit0"

RunRecord(script, args, behaviour) ==
    [script |-> script, args |-> CommandArgs(args), behaviour |-> behaviour,
     outcome |-> OutcomeOf(script, CommandArgs(args), behaviour)]

\* if not self.skip_validation: self.validate_data_file(filename, ...); the
\* value it returns is dropped
Validate(filename, valid) ==
    IF skip_validation THEN validated
    ELSE Append(validated, [filename |-> filename, valid |-> valid])

\* mutant: the flag is assigned what run_script returned
FlagAfterAssigned(flag, ok) == ok

\* if not self.run_script(...): flag = False
FlagAfter(flag, ok) == flag /\ ok

InitUpdater ==
    /\ pc = "update_start"
    /\ verbose \in BOOLEAN
    /\ skip_validation \in BOOLEAN
    /\ runs = <<>>
    /\ validated = <<>>
    /\ success = TRUE
    /\ all_secondary_success = TRUE
    /\ returned = None
    /\ quarterly = <<>>
    /\ monthly = <<>>
    /\ gold_prices = EmptyDict
    /\ enriched = <<>>
    /\ IdleMain
    /\ IdleParser
    /\ IdleExtractor
    /\ IdleFetcher

\* mutant: a failed validation counts as a failed run
GoldStepValidated(at, args, filename, next) ==
    /\ pc = at
    /\ \E behaviour \in Behaviours, valid \in BOOLEAN :
          /\ runs' = Append(runs, RunRecord(GoldScript, args, behaviour))
          /\ success' =
                 FlagAfter(success,
                           /\ RunOk(RunRecord(GoldScript, args, behaviour).outcome)
                           /\ (skip_validation \/ valid))
          /\ validated' = Validate(filename, valid)
    /\ pc' = next
    /\ UNCHANGED <<verbose, skip_validation, all_secondary_success, returned>>
    /\ UNCHANGED <<excel_data, quarterly, monthly, gold_prices, enriched,
                   outfile, outfile_before, exit_code, error>>
    /\ UNCHANGED <<parserVars, extractVars, fetcherVars>>

\* a step of step 1: a gold-price run and the validation of its file
GoldStep(at, args, filename, next) ==
    /\ pc = at
    /\ \E behaviour \in Behaviours, valid \in BOOLEAN :
          /\ runs' = Append(runs, RunRecord(GoldScript, args, behaviour))
          /\ success' =
                 FlagAfter(success,
                           RunOk(RunRecord(GoldScript, args, behaviour).outcome))
          /\ validated' = Validate(filename, valid)
    /\ pc' = next
    /\ UNCHANGED <<verbose, skip_validation, all_secondary_success, returned>>
    /\ UNCHANGED <<excel_data, quarterly, monthly, gold_prices, enriched,
                   outfile, outfile_before, exit_code, error>>
    /\ UNCHANGED <<parserVars, extractVars, fetcherVars>>

RunGoldYearly ==
    GoldStep("update_start", YearlyArgs, "nbp-gold-prices.json", "gold_monthly")

RunGoldMonthly ==
    GoldStep("gold_monthly", MonthlyArgs, "nbp-gold-prices-monthly.json",
             "gold_done")

\* if not success: return False
AbortSecondary ==
    /\ pc = "gold_done"
    /\ ~success
    /\ returned' = Some(FALSE)
    /\ pc' = "update_returned"
    /\ UNCHANGED <<verbose, skip_validation, runs, validated, success,
                   all_secondary_success>>
    /\ UNCHANGED <<excel_data, quarterly, monthly, gold_prices, enriched,
                   outfile, outfile_before, exit_code, error>>
    /\ UNCHANGED <<parserVars, extractVars, fetcherVars>>

\* a step of step 2 or 3: a run of a script and, where the code has one,
\* the validation of its file
SecondaryStep(at, script, files, next) ==
    /\ pc = at
    /\ \E behaviour \in Behaviours, valid \in BOOLEAN :
          /\ runs' = Append(runs, RunRecord(script, <<>>, behaviour))
          /\ all_secondary_success' =
                 FlagAfter(all_secondary_success,
                           RunOk(RunRecord(script, <<>>, behaviour).outcome))
          /\ validated' = IF files = <<>> THEN validated
                          ELSE Validate(files[1], valid)
    /\ pc' = next
    /\ returned' = IF next = "update_returned"
                   THEN Some(all_secondary_success' /\ success)
                   ELSE returned
    /\ UNCHANGED <<verbose, skip_validation, success>>
    /\ UNCHANGED <<excel_data, quarterly, monthly, gold_prices, enriched,
                   outfile, outfile_before, exit_code, error>>
    /\ UNCHANGED <<parserVars, extractVars, fetcherVars>>

\* step 2 is entered only past `if not success: return False`
RunWarsaw ==
    /\ success
    /\ SecondaryStep("gold_done", WarsawScript,
                     <<"warsaw-m2-prices-monthly.json">>, "min_wages")

RunMinWages ==
    SecondaryStep("min_wages", MinWagesScript, <<"min-wages.json">>,
                  "avg_wages")

\* mutant: the stock-price step left out
RunAvgWagesThenTimestamp ==
    SecondaryStep("avg_wages", AvgWagesScript, <<"avg-wages.json">>,
                  "timestamp")

RunAvgWages ==
    SecondaryStep("avg_wages", AvgWagesScript, <<"avg-wages.json">>, "stock")

RunStock == SecondaryStep("stock", StockScript, <<>>, "timestamp")

\* step 3, then return all_secondary_success and success
RunTimestamp ==
    SecondaryStep("timestamp", TimestampScript, <<>>, "update_returned")

NextUpdater ==
    \/ RunGoldYearly
    \/ RunGoldMonthly
    \/ AbortSecondary
    \/ RunWarsaw
    \/ RunMinWages
    \/ RunAvgWages
    \/ RunStock
    \/ RunTimestamp

SpecUpdater == InitUpdater /\ [][NextUpdater]_vars

\* update_all_data is one sequential method and every run_script call comes
\* back (subprocess.run has timeout=300 and every exception is caught), so
\* the method keeps taking its next step until it returns
SpecUpdaterFair == SpecUpdater /\ WF_vars(NextUpdater)

-----------------------------------------------------------------------------
(* Vocabulary of the properties of the interpolator *)

Interpolated == pc = "interpolated"

\* months since year 0 of a monthly record
FlatMonth(r) == r.year * 12 + r.month

MKey(r) == <<r.year, r.month>>

MonthlyKeys == {MKey(monthly[i]) : i \in DOMAIN monthly}

\* the prices the output gives for a key
PricesAt(k) == {monthly[i].priceM2_pln : i \in {j \in DOMAIN monthly : MKey(monthly[j]) = k}}

\* the (year, quarter) keys of the input, and the months they cover
InputQKeys == {QKey(quarterly[i]) : i \in DOMAIN quarterly}

MonthsOfQuarter(qk) == {<<qk[1], 3 * (qk[2] - 1) + o>> : o \in 1 .. 3}

BroadcastKeys == UNION {MonthsOfQuarter(qk) : qk \in InputQKeys}

\* index of the last input record of a (year, quarter)
LastIndexOf(qk) ==
    CHOOSE i \in DOMAIN quarterly :
        /\ QKey(quarterly[i]) = qk
        /\ \A j \in DOMAIN quarterly : QKey(quarterly[j]) = qk => j <= i

HasDuplicates ==
    \E i, j \in DOMAIN quarterly : i < j /\ QKey(quarterly[i]) = QKey(quarterly[j])

Unordered ==
    \E i, j \in DOMAIN quarterly :
        i < j /\ TupleLess(QKey(quarterly[j]), QKey(quarterly[i]))

\* some month of the output lies in no quarter of the input
HasBridge == Interpolated /\ MonthlyKeys \ BroadcastKeys # {}

-----------------------------------------------------------------------------
\* C1: key contiguity.  For every non-empty quarterly input, every calendar
\* month between the first and the last emitted (year, month) key is itself
\* an emitted key.
C1_KeyContiguity ==
    Interpolated =>
        LET flat == {FlatMonth(monthly[i]) : i \in DOMAIN monthly}
        IN  \A f \in FlatMonth(monthly[1]) .. FlatMonth(monthly[Len(monthly)]) :
                f \in flat

\* a run whose input leaves a gap of at least one quarter, in unordered input
C1_Witness == HasBridge /\ Unordered

\* C2: broadcast wins over interpolation.  Each of the three months of every
\* (year, quarter) of the input carries the price of that quarter (of its
\* last record), rounded to 2 decimals, whatever gaps surround it.
C2_BroadcastWins ==
    Interpolated =>
        \A qk \in InputQKeys : \A k \in MonthsOfQuarter(qk) :
            PricesAt(k) = {Round2(quarterly[LastIndexOf(qk)].priceM2)}

\* a bridge was interpolated between two quarters of different prices
C2_Witness ==
    /\ HasBridge
    /\ \E i, j \in DOMAIN quarterly :
          Round2(quarterly[i].priceM2) # Round2(quarterly[j].priceM2)

\* the input in the order of its (year, quarter) keys, equal keys in input order
Anchors == SortedPrices(quarterly)

\* months since year 0 of the middle month of an anchor's quarter
MidFlat(e) == e.year * 12 + 3 * (e.quarter - 1) + 2

\* the prices the output gives for the month f months after year 0
PricesAtFlat(f) == PricesAt(<<(f - 1) \div 12, ((f - 1) % 12) + 1>>)

\* price1 + (price2 - price1) * step / total_steps, rounded to 2 decimals
LinearValue(e1, e2, step) ==
    LET n == MidFlat(e2) - MidFlat(e1)
    IN  SubCent * RoundHalfEven(e1.priceM2 * n + (e2.priceM2 - e1.priceM2) * step,
                                n * SubCent)

\* the values at the steps lo .. hi between two anchors follow the line and
\* move monotonically from the first anchor's price toward the second's
FollowsLine(e1, e2, lo, hi) ==
    /\ \A s \in lo .. hi :
          PricesAtFlat(MidFlat(e1) + s) = {LinearValue(e1, e2, s)}
    /\ \A s \in lo .. (hi - 1) :
          \A v \in PricesAtFlat(MidFlat(e1) + s) :
              \A w \in PricesAtFlat(MidFlat(e1) + s + 1) :
                  IF e1.priceM2 <= e2.priceM2 THEN v <= w ELSE v >= w

\* C3 as stated: between two consecutive anchors more than one quarter
\* apart, the output price of every month strictly between the two
\* mid-quarter months is price1 + (price2 - price1) * step / total_steps
\* rounded to 2 decimals, a monotonic sequence.
C3_LinearBetweenMidMonths ==
    Interpolated =>
        \A i \in 1 .. (Len(Anchors) - 1) :
            LET n == MidFlat(Anchors[i + 1]) - MidFlat(Anchors[i])
            IN  n > 3 => FollowsLine(Anchors[i], Anchors[i + 1], 1, n - 1)

\* C3 amended: the same for the months strictly between the two anchors'
\* quarters (steps 2 .. total_steps - 2); the last month of the first
\* anchor's quarter and the first month of the second's keep their
\* broadcast price.
C3_LinearBetweenQuarters ==
    Interpolated =>
        \A i \in 1 .. (Len(Anchors) - 1) :
            LET n == MidFlat(Anchors[i + 1]) - MidFlat(Anchors[i])
            IN  n > 3 => FollowsLine(Anchors[i], Anchors[i + 1], 2, n - 2)

\* Q1 = 100.00 and Q4 = 160.00 of one year: April is 113.33, September 146.67
C3_Witness ==
    /\ Interpolated
    /\ quarterly = <<[year |-> 2006, quarter |-> 1, priceM2 |-> 10000 * SubCent],
                     [year |-> 2006, quarter |-> 4, priceM2 |-> 16000 * SubCent]>>
    /\ PricesAt(<<2006, 4>>) = {11333 * SubCent}
    /\ PricesAt(<<2006, 9>>) = {14667 * SubCent}

\* the input with, of the records of one (year, quarter), only the last kept
RECURSIVE KeepLast(_)
KeepLast(qs) ==
    IF qs = <<>> THEN <<>>
    ELSE LET rest == KeepLast(SubSeq(qs, 2, Len(qs)))
         IN  IF \E j \in 2 .. Len(qs) : QKey(qs[j]) = QKey(qs[1])
             THEN rest
             ELSE <<qs[1]>> \o rest

\* C4: last-write-wins.  The output for an input with several records of one
\* (year, quarter) equals the output for the input in which only the last of
\* those records is kept.
C4_LastWriteWins ==
    Interpolated => monthly = InterpolateQuarterlyToMonthly(KeepLast(quarterly))

\* C9: output span.  The first emitted key is the first month of the
\* earliest (year, quarter) of the input, the last emitted key is the last
\* month of the latest one, and no key lies outside them.
C9_OutputSpan ==
    Interpolated =>
        LET first == CHOOSE a \in InputQKeys : \A b \in InputQKeys : TupleLeq(a, b)
            last == CHOOSE a \in InputQKeys : \A b \in InputQKeys : TupleLeq(b, a)
            lo == <<first[1], 3 * (first[2] - 1) + 1>>
            hi == <<last[1], 3 * (last[2] - 1) + 3>>
        IN  /\ MKey(monthly[1]) = lo
            /\ MKey(monthly[Len(monthly)]) = hi
            /\ \A k \in MonthlyKeys : TupleLeq(lo, k) /\ TupleLeq(k, hi)

\* an unordered input whose earliest and latest quarters lie in different years
C9_Witness ==
    /\ Interpolated
    /\ Unordered
    /\ monthly[1].year < monthly[Len(monthly)].year
    /\ monthly[1].month = 7
    /\ monthly[Len(monthly)].month = 12

\* C10: the returned sequence is strictly ascending by (year, month), so
\* every key occurs in exactly one record, also for unordered input and for
\* input with duplicate quarters.
C10_StrictlyAscending ==
    Interpolated =>
        \A i, j \in DOMAIN monthly :
            i < j => TupleLess(MKey(monthly[i]), MKey(monthly[j]))

\* an unordered input with a duplicate quarter and a bridge
C10_Witness == HasBridge /\ Unordered /\ HasDuplicates

\* the three records of the quarter of e, all with the given price
QuarterMonths(e, price) ==
    [o \in 1 .. 3 |->
        [year |-> e.year, month |-> 3 * (e.quarter - 1) + o,
         priceM2_pln |-> price]]

SingleAnchor == Interpolated /\ Len(quarterly) = 1

\* C11 as stated: for an input of exactly one quarterly record (y, q, p)
\* the interpolator returns exactly three records, for the months 3(q-1)+1,
\* 3(q-1)+2 and 3(q-1)+3 of year y, all with price p.
C11_SingleAnchorExactPrice ==
    SingleAnchor => monthly = QuarterMonths(quarterly[1], quarterly[1].priceM2)

\* C11 amended: the same three records, and no other, all with price p
\* rounded to 2 decimals.
C11_SingleAnchorRounded ==
    SingleAnchor =>
        monthly = QuarterMonths(quarterly[1], Round2(quarterly[1].priceM2))

\* one record of a fourth quarter whose price has more than 2 decimals
C11_Witness ==
    /\ SingleAnchor
    /\ quarterly[1].quarter = 4
    /\ quarterly[1].priceM2 = 10000 * SubCent + 4
    /\ Len(monthly) = 3
    /\ monthly[3].month = 12
    /\ monthly[3].priceM2_pln = 10000 * SubCent

-----------------------------------------------------------------------------
(* Properties of the converter *)

\* the gold table has a strictly positive price for the key of a record
HasPositiveGold(r) ==
    /\ MKey(r) \in DOMAIN gold_prices
    /\ gold_prices[MKey(r)] > 0

\* C5: gold conversion rule.  For every monthly record and every gold
\* table the conversion gives a result, in which priceM2_gold is null iff
\* the key is absent from the table or its price is not strictly positive,
\* and is otherwise priceM2_pln / gold price rounded to 2 decimals.
C5_GoldConversionRule ==
    /\ pc # "convert_raised"
    /\ pc = "convert_returned" =>
          \A i \in DOMAIN enriched :
              IF HasPositiveGold(monthly[i])
              THEN enriched[i].priceM2_gold =
                       Some(RoundHalfEven(monthly[i].priceM2_pln * 100,
                                          gold_prices[MKey(monthly[i])]))
              ELSE enriched[i].priceM2_gold = None

\* C8: conversion preserves the series.  Whenever the converter returns,
\* its result has the length of the input, the same (year, month) keys in
\* the same order and the same priceM2_pln in every record.
C8_SeriesPreserved ==
    pc = "convert_returned" =>
        /\ Len(enriched) = Len(monthly)
        /\ \A i \in DOMAIN monthly :
              /\ i \in DOMAIN enriched
              /\ enriched[i].year = monthly[i].year
              /\ enriched[i].month = monthly[i].month
              /\ enriched[i].priceM2_pln = monthly[i].priceM2_pln

\* a returned series, not in key order, with a converted and a null record
C8_Witness ==
    /\ pc = "convert_returned"
    /\ Len(monthly) = 2
    /\ TupleLess(MKey(monthly[2]), MKey(monthly[1]))
    /\ enriched[1].priceM2_gold = None
    /\ enriched[2].priceM2_gold # None

-----------------------------------------------------------------------------
(* Properties of main *)

Done == pc = "done"

\* the run ended before the conversion: fetch, column, extraction,
\* interpolation or gold file
AbortedEarly ==
    error \in {"RequestException", "WarsawColumnNotFound", "NoQuarterlyData",
               "NoMonthlyData", "GoldFileError"}

\* the output file holds one record per month of the series, those without
\* a gold price with priceM2_gold null
FileHoldsEveryMonth ==
    /\ outfile.state = "valid"
    /\ Len(outfile.records) = Len(monthly)
    /\ \A i \in DOMAIN monthly :
          /\ i \in DOMAIN outfile.records
          /\ MKey(outfile.records[i]) = MKey(monthly[i])
          /\ outfile.records[i].priceM2_pln = monthly[i].priceM2_pln
          /\ MKey(monthly[i]) \notin DOMAIN gold_prices
                 => outfile.records[i].priceM2_gold = None

\* C6: months without a gold price never make the run fail.  Whenever the
\* fetch, the extraction, the interpolation and the gold-table load
\* succeed, main writes every monthly record and returns 0, for any number
\* of months without a gold price, also when no month has one.  (Stated for
\* runs whose write does not fail and whose gold table holds no price 0.)
C6_MissingGoldNeverFatal ==
    ( /\ Done
      /\ ~AbortedEarly
      /\ error # "OSError"
      /\ \A k \in DOMAIN gold_prices : gold_prices[k] # 0 )
    => (exit_code = Some(0) /\ FileHoldsEveryMonth)

\* C7: no output on abort.  In every run that aborts because the fetch
\* fails, the target column is not found, the extraction yields no record,
\* or the gold file is missing or malformed, main returns 1 and the output
\* file is as the run found it.
C7_NoOutputOnAbort ==
    ( /\ Done
      /\ error \in {"RequestException", "WarsawColumnNotFound",
                    "NoQuarterlyData", "GoldFileError"} )
    => (exit_code = Some(1) /\ outfile = outfile_before)

\* a run that found an output file of an earlier run and could not load the
\* gold prices
C7_Witness ==
    /\ Done
    /\ error = "GoldFileError"
    /\ outfile_before = OldFile
    /\ monthly # <<>>

\* the scenario: the city names in row HeaderLead + 1, Warszawa in the last
\* column, then the rows ('Q1 2021', 9500.0) and ('Q2 2021', 9700.0)
ScenarioSheet ==
    MakeSheet(HeaderLead, TRUE,
              <<DataRow(StrCell(Label_Q1_2021), NumCell(950000 * SubCent)),
                DataRow(StrCell(Label_Q2_2021), NumCell(970000 * SubCent))>>)

ScenarioQuarterly ==
    <<[year |-> 2021, quarter |-> 1, priceM2 |-> 950000 * SubCent],
      [year |-> 2021, quarter |-> 2, priceM2 |-> 970000 * SubCent]>>

\* the gold table holding only (2021, 1) = 250.0 and (2021, 2) = 255.0
ScenarioGold ==
    (<<2021, 1>> :> 25000 * SubCent) @@ (<<2021, 2>> :> 25500 * SubCent)

\* the run returned 0 and the file holds January to June 2021: 9500.0 for
\* months 1-3, 9700.0 for months 4-6, 38.0 g, 37.25 g and null for months
\* 1, 2 and 3
ScenarioOutcome ==
    /\ exit_code = Some(0)
    /\ outfile.state = "valid"
    /\ Len(outfile.records) = 6
    /\ \A i \in 1 .. 6 :
          /\ outfile.records[i].year = 2021
          /\ outfile.records[i].month = i
          /\ outfile.records[i].priceM2_pln =
                 (IF i <= 3 THEN 950000 * SubCent ELSE 970000 * SubCent)
    /\ outfile.records[1].priceM2_gold = Some(3800)
    /\ outfile.records[2].priceM2_gold = Some(3725)
    /\ outfile.records[3].priceM2_gold = None

\* C12: end-to-end scenario.  The extraction of the scenario sheet yields
\* the two quarterly records (2021, 1, 9500.0) and (2021, 2, 9700.0), and
\* every run on these records and the scenario gold table whose write does
\* not fail returns 0 with the six records of the scenario in the file.
C12_EndToEndScenario ==
    /\ [][(pc = "fetched" /\ excel_data = ScenarioSheet)
             => (pc' = "extracted" /\ quarterly' = ScenarioQuarterly)]_vars
    /\ []((/\ Done
           /\ quarterly = ScenarioQuarterly
           /\ gold_prices = ScenarioGold
           /\ error # "OSError") => ScenarioOutcome)

\* the scenario run to its end, over a file left by an earlier run
C12_Witness ==
    /\ Done
    /\ exit_code = Some(0)
    /\ quarterly = ScenarioQuarterly
    /\ gold_prices = ScenarioGold
    /\ outfile_before = OldFile
    /\ Len(outfile.records) = 6
    /\ outfile.records[2].priceM2_gold = Some(3725)

\* every stage ran to its end: records were extracted, interpolated and
\* converted, and the file holds the converted records, all of them
StagesCompleted ==
    /\ quarterly # <<>>
    /\ monthly # <<>>
    /\ monthly = InterpolateQuarterlyToMonthly(quarterly)
    /\ ~ConvertToGoldEquivalent(monthly, gold_prices).raised
    /\ enriched = ConvertToGoldEquivalent(monthly, gold_prices).result
    /\ outfile = WrittenFile(enriched)

\* C13: exit code.  main returns 0 or 1; it returns 0 exactly when no stage
\* failed, the write included, and 1 in every other case; no run returns 0
\* unless the output file holds the complete record sequence of that run.
C13_ExitCode ==
    Done =>
        /\ exit_code \in {Some(0), Some(1)}
        /\ exit_code = Some(0) <=> error = "none"
        /\ exit_code = Some(0) => StagesCompleted

\* a run that returned 0 and wrote records with and without a gold price
C13_Witness ==
    /\ Done
    /\ exit_code = Some(0)
    /\ StagesCompleted
    /\ Len(quarterly) = 1
    /\ outfile.records[1].priceM2_gold # None
    /\ outfile.records[3].priceM2_gold = None

-----------------------------------------------------------------------------
(* Properties of _parse_period *)

ParseReturned == pc = "parse_returned"

\* _parse_period returned a year and a quarter
ParsedBoth == ParseReturned /\ parsed.year # None /\ parsed.quarter # None

\* C14: quarter range.  For every period label, whenever _parse_period
\* returns a non-null year and a non-null quarter, the quarter is one of
\* 1, 2, 3, 4.
C14_QuarterInRange == ParsedBoth => parsed.quarter[1] \in 1 .. 4

Returned(year, quarter) == [year |-> Some(year), quarter |-> Some(quarter)]

\* every documented label of (Y, n), paired with (Y, n)
DocumentedResults ==
    {<<DocumentedLabel(form, n, d1, d2), Returned(2000 + 10 * d1 + d2, n)>> :
        form \in DocumentedForms, n \in 1 .. 4, d1 \in 0 .. 9, d2 \in 0 .. 9}

-----------------------------------------------------------------------------
(* Properties of extract_warsaw_quarterly_prices *)

ExtractReturned == pc = "extract_returned"

\* the lower-cased text of the cell contains the target-city substring
HasTargetText(cell) ==
    cell.kind = "str" /\ Contains(Lower(cell.text), Warsza)

TargetCols(row) == {c \in DOMAIN row : HasTargetText(row[c])}

\* the rows among rows 1 .. 20 that have such a cell
TargetRows ==
    {r \in DOMAIN excel_data : r <= ScanRows /\ TargetCols(excel_data[r]) # {}}

\* record e is what row r gives in column col
RecordOfRow(e, r, col) ==
    /\ PeriodOfCell(excel_data[r][1]) = Returned(e.year, e.quarter)
    /\ excel_data[r][col].kind = "num"
    /\ excel_data[r][col].num = e.priceM2

\* C16: header detection.  The header row chosen by the extractor is the
\* first row among rows 1..20 that has a cell whose lower-cased text
\* contains 'warsza', the target column is the first such cell of that row,
\* and the records come, in row order, from rows strictly below the header
\* row, priced from the target column.
C16_HeaderDetection ==
    ExtractReturned =>
        LET h == header[1]
        IN  /\ h.header_row \in TargetRows
            /\ \A r \in TargetRows : h.header_row <= r
            /\ h.warsaw_col \in TargetCols(excel_data[h.header_row])
            /\ \A c \in TargetCols(excel_data[h.header_row]) : h.warsaw_col <= c
            /\ \E f \in [DOMAIN quarterly ->
                             (h.header_row + 1) .. Len(excel_data)] :
                  /\ \A i, j \in DOMAIN quarterly : i < j => f[i] < f[j]
                  /\ \A i \in DOMAIN quarterly :
                        RecordOfRow(quarterly[i], f[i], h.warsaw_col)

\* two rows with the city: the first has it in column 2 and in the last
\* column, and the row below the second gives a record from column 2
C16_Witness ==
    /\ ExtractReturned
    /\ header = Some([header_row |-> 1, warsaw_col |-> 2])
    /\ TargetRows = {1, 2}
    /\ TargetCols(excel_data[1]) = {2, NumCols}
    /\ TargetCols(excel_data[2]) = {NumCols}
    /\ Len(quarterly) = 1
    /\ quarterly[1].priceM2 = 950000 * SubCent

\* no cell of the first 20 rows of the sheet contains the substring
NoTargetInWindow(sheet) ==
    \A r \in DOMAIN sheet : r <= ScanRows => TargetCols(sheet[r]) = {}

\* C17: a missing header is fatal.  If no cell in the first 20 rows of the
\* fetched sheet contains 'warsza', also when such a cell stands in row 21
\* or later, the extraction raises and yields no record, and main returns 1
\* (leaving the output file alone).
C17_MissingHeaderFatal ==
    [][(pc = "fetched" /\ NoTargetInWindow(excel_data))
          => /\ pc' = "done"
             /\ exit_code' = Some(1)
             /\ error' = "WarsawColumnNotFound"
             /\ quarterly' = <<>>
             /\ outfile' = outfile]_vars

\* a run that ended so on a sheet with the city in row 21 and data rows
\* below it
C17_Witness ==
    /\ Done
    /\ exit_code = Some(1)
    /\ error = "WarsawColumnNotFound"
    /\ Len(excel_data) = ScanRows + 1 + MaxDataRows
    /\ NoTargetInWindow(excel_data)
    /\ TargetCols(excel_data[ScanRows + 1]) # {}

\* the cell is not empty: a number, 0 included, or a text of some length
NonEmptyCell(cell) ==
    cell.kind = "num" \/ (cell.kind = "str" /\ cell.text # <<>>)

\* both cells are non-empty, the period parses to a year and a quarter and
\* the price is a number
ValidRow(row, col) ==
    /\ NonEmptyCell(row[1])
    /\ NonEmptyCell(row[col])
    /\ PeriodOfCell(row[1]).year # None
    /\ PeriodOfCell(row[1]).quarter # None
    /\ FloatOfCell(row[col]) # None

\* one record for each valid row from row r on, in row order
RECURSIVE ValidRecords(_, _)
ValidRecords(r, col) ==
    IF r > Len(excel_data) THEN <<>>
    ELSE (IF ValidRow(excel_data[r], col)
          THEN <<[year |-> PeriodOfCell(excel_data[r][1]).year[1],
                  quarter |-> PeriodOfCell(excel_data[r][1]).quarter[1],
                  priceM2 |-> FloatOfCell(excel_data[r][col])[1]]>>
          ELSE <<>>) \o ValidRecords(r + 1, col)

\* C18: extraction keeps exactly the valid rows in sheet order.  The
\* extractor emits one record, in row order, for each row below the header
\* whose period cell and target-column cell are both non-empty (a numeric
\* price of 0 is a non-empty cell), whose period parses and whose price is a
\* number, and skips no other row.
C18_KeepsValidRows ==
    ExtractReturned =>
        quarterly = ValidRecords(header[1].header_row + 1, header[1].warsaw_col)

\* what a run on these quarterly records and this gold table computes: a
\* function of the inputs of the run alone
RunResult ==
    ConvertToGoldEquivalent(InterpolateQuarterlyToMonthly(quarterly),
                            gold_prices).result

\* C19: the output file is overwritten, not appended.  After a run that
\* returned 0 the file holds exactly the enriched records of that run,
\* ascending by (year, month), and nothing of its previous content; the
\* content is determined by the inputs of the run alone, so a second run on
\* the same inputs leaves the same file.
C19_OverwrittenNotAppended ==
    (Done /\ exit_code = Some(0)) =>
        /\ outfile = WrittenFile(RunResult)
        /\ \A i, j \in DOMAIN outfile.records :
              i < j => TupleLess(MKey(outfile.records[i]),
                                 MKey(outfile.records[j]))
        /\ \A i \in DOMAIN outfile_before.records :
              \A j \in DOMAIN outfile.records :
                  outfile.records[j] # outfile_before.records[i]

\* a run over the file of an earlier run, on quarterly records out of order
C19_Witness ==
    /\ Done
    /\ exit_code = Some(0)
    /\ outfile_before = OldFile
    /\ Len(quarterly) = 2
    /\ TupleLess(QKey(quarterly[2]), QKey(quarterly[1]))
    /\ Len(outfile.records) = 6

-----------------------------------------------------------------------------
(* Properties of update_all_data *)

SecondaryScripts ==
    {WarsawScript, MinWagesScript, AvgWagesScript, StockScript}

\* a process of the script was started by run i
Started(i) == runs[i].outcome # "not_found"

\* run i is the gold-price run with these arguments and ended with exit
\* code 0
GoldRunDone(i, args) ==
    /\ i \in DOMAIN runs
    /\ runs[i].script = GoldScript
    /\ runs[i].args = CommandArgs(args)
    /\ runs[i].outcome = "exit0"

BothGoldRunsDone == GoldRunDone(1, YearlyArgs) /\ GoldRunDone(2, MonthlyArgs)

\* both gold-price runs are over and one of them did not end with exit code 0
GoldRunFailed ==
    /\ Len(runs) >= 2
    /\ \E i \in 1 .. 2 : runs[i].outcome # "exit0"

\* C20: dependency order in update_all_data.  No secondary script (Warsaw
\* m2 prices, minimum wages, average wages, stock prices) and no timestamp
\* update is ever run unless both gold-price runs, the yearly and then the
\* monthly, have ended with exit code 0; if either gold run fails, no
\* further script is run and update_all_data returns False.
C20_GoldRunsFirst ==
    /\ \A i \in DOMAIN runs :
          runs[i].script \in SecondaryScripts \cup {TimestampScript}
              => (i > 2 /\ BothGoldRunsDone)
    /\ GoldRunFailed =>
          /\ Len(runs) = 2
          /\ returned \in {None, Some(FALSE)}
          /\ pc = "update_returned" => returned = Some(FALSE)

\* the yearly run failed, the monthly run ended with exit code 0, and
\* update_all_data returned False after these two runs
C20_Witness ==
    /\ pc = "update_returned"
    /\ returned = Some(FALSE)
    /\ Len(runs) = 2
    /\ runs[1].outcome = "nonzero"
    /\ runs[2].outcome = "exit0"

-----------------------------------------------------------------------------
(* Properties of _parse_period: rule priority, year extraction *)

\* the quarter each rule finds on its own: (1) a Roman numeral I..IV before
\* whitespace and the year, (2) Q and a digit 1..4, (3) a numeral before kw
RomanRule == ParseRoman(label)

QRule == ParseQ(Lower(label))

KwRule == ParseKw(Lower(label))

\* C21: parser rule priority.  When a period label matches more than one
\* quarter pattern with different numerals, _parse_period returns the
\* quarter of the earliest rule that resolves, in the order (1) Roman
\* numeral before the year, (2) Q and a digit, (3) numeral before kw; a later
\* rule is consulted only when every earlier rule left the quarter unresolved.
C21_RulePriority ==
    ParseReturned =>
        /\ RomanRule # None => parsed.quarter = RomanRule
        /\ (RomanRule = None /\ QRule # None) => parsed.quarter = QRule
        /\ (RomanRule = None /\ QRule = None) => parsed.quarter = KwRule

\* a label on which the three rules resolve three different quarters, parsed
C21_Witness ==
    /\ ParseReturned
    /\ RomanRule # None /\ QRule # None /\ KwRule # None
    /\ RomanRule # QRule /\ QRule # KwRule /\ RomanRule # KwRule

-----------------------------------------------------------------------------
(* Properties of the extractor: failures of single rows *)

\* both cells of the row are non-empty and the row fails: its period label
\* has no year, or no recognisable quarter, or its price is not a number
FailedRow(row, col) ==
    /\ NonEmptyCell(row[1])
    /\ NonEmptyCell(row[col])
    /\ \/ PeriodOfCell(row[1]).year = None
       \/ PeriodOfCell(row[1]).quarter = None
       \/ FloatOfCell(row[col]) = None

\* the records end with one record for each valid row after row r, and
\* the records before them are no more than the rows between the header
\* and row r
SwallowedAt(r, header_row, col) ==
    LET after == ValidRecords(r + 1, col)
        before == Len(quarterly) - Len(after)
    IN  /\ before >= 0
        /\ before <= r - header_row - 1
        /\ SubSeq(quarterly, before + 1, Len(quarterly)) = after

\* C22: per-row failures are swallowed.  A data row whose period label has
\* no year, or has a year but no recognisable quarter, or whose price cell
\* cannot be converted to a number, yields no record and raises no error;
\* extraction continues (it raises only when no header row is found), so
\* every valid row after the failed row is still emitted.
C22_FailuresSwallowed ==
    /\ pc = "extract_raised" => NoTargetInWindow(excel_data)
    /\ ExtractReturned =>
          \A r \in header[1].header_row + 1 .. Len(excel_data) :
              FailedRow(excel_data[r], header[1].warsaw_col)
                  => SwallowedAt(r, header[1].header_row,
                                 header[1].warsaw_col)

\* the same with the rows of price 0 left aside: no row after the failed
\* row has the number 0 in the target column
C22_SwallowedBesidesZeroPrice ==
    /\ pc = "extract_raised" => NoTargetInWindow(excel_data)
    /\ ExtractReturned =>
          \A r \in header[1].header_row + 1 .. Len(excel_data) :
              (/\ FailedRow(excel_data[r], header[1].warsaw_col)
               /\ \A k \in r + 1 .. Len(excel_data) :
                     excel_data[k][header[1].warsaw_col] # NumCell(0))
                  => SwallowedAt(r, header[1].header_row,
                                 header[1].warsaw_col)

\* the places of the label where '20' and two digits stand
YearPlaces == {p \in 1 .. Len(label) : YearAt(label, p)}

\* C23: year extraction.  _parse_period finds a year whenever the label
\* contains '20' followed by two digits anywhere in the string, whatever
\* characters stand directly before or after them, and the year returned is
\* the first such occurrence.
C23_YearAnywhere ==
    (ParseReturned /\ YearPlaces # {}) =>
        parsed.year =
            Some(IntOfDigits(SubSeq(label, Min(YearPlaces), Min(YearPlaces) + 3)))

-----------------------------------------------------------------------------
(* Properties of the interpolator: adjacent quarters, bounds of the prices *)

\* every two consecutive records of the sorted input are at most one
\* quarter apart: their mid-quarter months differ by 3 or less
AllAdjacent ==
    \A i \in 1 .. (Len(Anchors) - 1) :
        MidFlat(Anchors[i + 1]) - MidFlat(Anchors[i]) <= 3

\* the (year, quarter) a monthly record lies in
QuarterOf(r) == <<r.year, ((r.month - 1) \div 3) + 1>>

\* the output has exactly the three months of every (year, quarter) of the
\* input, one record each
ThreePerQuarter ==
    /\ MonthlyKeys = BroadcastKeys
    /\ Len(monthly) = 3 * Cardinality(InputQKeys)

\* C24 as stated: when every two consecutive records of the sorted input
\* are at most one quarter apart, the output has exactly three records per
\* distinct (year, quarter) and each carries the price an input record of
\* its own quarter has.
C24_AdjacentExactPrice ==
    (Interpolated /\ AllAdjacent) =>
        /\ ThreePerQuarter
        /\ \A i \in DOMAIN monthly :
              \E j \in DOMAIN quarterly :
                  /\ QKey(quarterly[j]) = QuarterOf(monthly[i])
                  /\ monthly[i].priceM2_pln = quarterly[j].priceM2

\* C24 amended: no interpolation between adjacent quarters.  When every two
\* consecutive records of the sorted input are at most one quarter apart,
\* nothing is interpolated: the output has exactly three records per
\* distinct (year, quarter) and each carries the price of the last input
\* record of its own quarter, rounded to 2 decimals.
C24_AdjacentRoundedPrice ==
    (Interpolated /\ AllAdjacent) =>
        /\ ThreePerQuarter
        /\ \A i \in DOMAIN monthly :
              /\ QuarterOf(monthly[i]) \in InputQKeys
              /\ monthly[i].priceM2_pln =
                     Round2(quarterly[LastIndexOf(QuarterOf(monthly[i]))].priceM2)

\* three adjacent quarters across the year boundary, given out of order,
\* with three different prices, one of them with more than 2 decimals
C24_Witness ==
    /\ Interpolated
    /\ AllAdjacent
    /\ Unordered
    /\ Len(monthly) = 9
    /\ monthly[1].year < monthly[9].year
    /\ \E i \in DOMAIN quarterly : quarterly[i].priceM2 = 10000 * SubCent + 4
    /\ \E i \in DOMAIN quarterly : quarterly[i].priceM2 = 16000 * SubCent

\* the records the bridge interpolation wrote: their month lies in no
\* quarter of the input
BridgeRecords ==
    LET broadcast == BroadcastKeys
    IN  {i \in DOMAIN monthly : MKey(monthly[i]) \notin broadcast}

Between(v, a, b) == (a <= v /\ v <= b) \/ (b <= v /\ v <= a)

MinPrice(ps) == CHOOSE a \in ps : \A b \in ps : a <= b

MaxPrice(ps) == CHOOSE a \in ps : \A b \in ps : b <= a

InputPrices == {quarterly[i].priceM2 : i \in DOMAIN quarterly}

\* C26 as stated: every priceM2_pln written by the bridge interpolation
\* lies between the prices of the two consecutive anchors that enclose its
\* month (inclusive), and every price of the output lies between the
\* smallest and the largest input price.
C26_BetweenExactAnchors ==
    Interpolated =>
        /\ \A i \in BridgeRecords :
              \E a \in 1 .. (Len(Anchors) - 1) :
                  /\ MidFlat(Anchors[a]) < FlatMonth(monthly[i])
                  /\ FlatMonth(monthly[i]) < MidFlat(Anchors[a + 1])
                  /\ Between(monthly[i].priceM2_pln,
                             Anchors[a].priceM2, Anchors[a + 1].priceM2)
        /\ \A i \in DOMAIN monthly :
              Between(monthly[i].priceM2_pln,
                      MinPrice(InputPrices), MaxPrice(InputPrices))

\* C26 amended: interpolated values stay between their anchors.  Every
\* priceM2_pln written by the bridge interpolation lies between the prices,
\* rounded to 2 decimals, of the two consecutive anchors that enclose its
\* month (inclusive), so every price of the output lies between the
\* smallest and the largest input price rounded to 2 decimals.
C26_BetweenRoundedAnchors ==
    Interpolated =>
        LET anchors == Anchors
            bridged == BridgeRecords
            lo == Round2(MinPrice(InputPrices))
            hi == Round2(MaxPrice(InputPrices))
        IN  /\ \A i \in bridged :
                  \E a \in 1 .. (Len(anchors) - 1) :
                      /\ MidFlat(anchors[a]) < FlatMonth(monthly[i])
                      /\ FlatMonth(monthly[i]) < MidFlat(anchors[a + 1])
                      /\ Between(monthly[i].priceM2_pln,
                                 Round2(anchors[a].priceM2),
                                 Round2(anchors[a + 1].priceM2))
            /\ \A i \in DOMAIN monthly :
                  Between(monthly[i].priceM2_pln, lo, hi)

\* a bridge from 160.00 down to 100.004 was written: some interpolated
\* price lies strictly between the two
C26_Witness ==
    /\ Interpolated
    /\ \E a \in 1 .. (Len(Anchors) - 1) :
          /\ Anchors[a].priceM2 = 16000 * SubCent
          /\ Anchors[a + 1].priceM2 = 10000 * SubCent + 4
          /\ MidFlat(Anchors[a + 1]) - MidFlat(Anchors[a]) > 3
    /\ \E i \in BridgeRecords :
          /\ monthly[i].priceM2_pln > 10000 * SubCent + 4
          /\ monthly[i].priceM2_pln < 16000 * SubCent

\* the calendar (year, month) lying s months after month m of year y
MonthsAfter(y, m, s) ==
    <<y + ((m - 1 + s) \div 12), ((m - 1 + s) % 12) + 1>>

\* the middle month of the quarter of an anchor
MidQuarterMonth(e) == 3 * (e.quarter - 1) + 2

\* the calendar keys of the steps 1 .. total_steps - 1 after the earlier of
\* two anchors
StepKeys(e1, e2) ==
    {MonthsAfter(e1.year, MidQuarterMonth(e1), s) :
        s \in 1 .. (MidFlat(e2) - MidFlat(e1) - 1)}

\* C25: month-index arithmetic around the epoch.  For anchors in any years
\* 2000..2099 (before 2006, after 2006, and pairs that span a year
\* boundary) the key written for interpolation step s is the calendar
\* (year, month) lying s months after the earlier anchor's mid-quarter month
\* (it carries the value of step s), the keys of the steps are the only
\* ones besides the anchors' quarters, and every month is in 1..12.
C25_MonthIndexArithmetic ==
    (Interpolated /\ Len(quarterly) = 2) =>
        LET e1 == Anchors[1]
            e2 == Anchors[2]
            n == MidFlat(e2) - MidFlat(e1)
        IN  /\ \A i \in DOMAIN monthly : monthly[i].month \in 1 .. 12
            /\ n > 3 =>
                  /\ MonthlyKeys = BroadcastKeys \cup StepKeys(e1, e2)
                  /\ \A s \in 2 .. (n - 2) :
                        PricesAt(MonthsAfter(e1.year, MidQuarterMonth(e1), s))
                            = {LinearValue(e1, e2, s)}

\* a bridge from 2005 Q2 to 2006 Q2: step 7 is written for December 2005
\* (flat index 0) at 135.00 and step 8 for January 2006 at 140.00
C25_Witness ==
    /\ Interpolated
    /\ QKey(quarterly[1]) = <<2005, 2>>
    /\ QKey(quarterly[2]) = <<2006, 2>>
    /\ PricesAt(<<2005, 12>>) = {13500 * SubCent}
    /\ PricesAt(<<2006, 1>>) = {14000 * SubCent}

-----------------------------------------------------------------------------
(* Properties of update_all_data: the secondary steps, the result, verbosity *)

\* the scripts of step 2 and step 3 in the order of the code
SecondaryOrder ==
    <<WarsawScript, MinWagesScript, AvgWagesScript, StockScript,
      TimestampScript>>

\* the runs after the two gold-price runs are the first scripts of
\* SecondaryOrder, one run each
SecondaryRunsInOrder ==
    /\ Len(runs) <= 2 + Len(SecondaryOrder)
    /\ \A i \in 3 .. Len(runs) : runs[i].script = SecondaryOrder[i - 2]

AllSecondaryRan ==
    /\ pc = "update_returned"
    /\ Len(runs) = 2 + Len(SecondaryOrder)
    /\ SecondaryRunsInOrder
    /\ runs[Len(runs)].script = TimestampScript

\* C27: the secondary steps are independent.  Once both gold-price runs
\* have succeeded, run_script is called for the Warsaw, minimum-wage,
\* average-wage, stock-price and timestamp scripts, each exactly once and in
\* that order, whether or not any earlier one of them failed or timed out;
\* the timestamp script is the last script run.
C27_SecondaryIndependent ==
    /\ [](BothGoldRunsDone => SecondaryRunsInOrder)
    /\ []((pc = "update_returned" /\ BothGoldRunsDone) => AllSecondaryRan)
    /\ (BothGoldRunsDone ~> AllSecondaryRan)

\* the Warsaw run timed out, the minimum-wage run ended with a non-zero
\* exit code, the stock script was not found, and all five scripts were run
C27_Witness ==
    /\ AllSecondaryRan
    /\ BothGoldRunsDone
    /\ runs[3].outcome = "timeout"
    /\ runs[4].outcome = "nonzero"
    /\ runs[6].outcome = "not_found"
    /\ runs[7].script = TimestampScript

UpdateReturned == pc = "update_returned"

EveryRunExitZero == \A i \in DOMAIN runs : runs[i].outcome = "exit0"

\* the scripts update_all_data runs, given how the gold-price runs ended
ScriptsRun ==
    [i \in 1 .. (IF BothGoldRunsDone THEN 2 + Len(SecondaryOrder) ELSE 2) |->
        IF i <= 2 THEN GoldScript ELSE SecondaryOrder[i - 2]]

\* C28: the result of update_all_data.  It returns True if and only if
\* every script it ran completed with exit code 0 (no missing script,
\* non-zero exit or timeout); the return value and the scripts run are those
\* that the outcomes of the runs alone determine, whatever validate_data_file
\* returned and whether or not validation was skipped.
C28_ResultOfUpdate ==
    UpdateReturned =>
        /\ returned \in {Some(TRUE), Some(FALSE)}
        /\ \A i \in DOMAIN runs : runs[i].outcome \in Outcomes
        /\ returned = Some(TRUE) <=> EveryRunExitZero
        /\ [i \in DOMAIN runs |-> runs[i].script] = ScriptsRun

\* every run ended with exit code 0, every validation failed, and
\* update_all_data returned True
C28_Witness ==
    /\ UpdateReturned
    /\ returned = Some(TRUE)
    /\ Len(runs) = 7
    /\ Len(validated) = 5
    /\ \A i \in DOMAIN validated : ~validated[i].valid

\* every script that was run found its file and did its work
SourcesBehaved == \A i \in DOMAIN runs : runs[i].behaviour = "succeeds"

\* what update_all_data returns without the verbose flag for the
\* behaviours of this run: True exactly when every script succeeds
QuietResult == Some(SourcesBehaved)

\* C29: verbosity does not change the outcome of the orchestrator.  For
\* the same behaviour of the scripts and their data sources,
\* update_all_data runs the same scripts and returns the same result with
\* verbose mode on as with verbose mode off; when every script succeeds
\* without the verbose flag, the verbose run also returns True.
C29_VerbosityNeutral ==
    UpdateReturned =>
        /\ [i \in DOMAIN runs |-> runs[i].script] =
               [i \in 1 .. (IF \A j \in 1 .. 2 : runs[j].behaviour = "succeeds"
                            THEN 2 + Len(SecondaryOrder) ELSE 2) |->
                   IF i <= 2 THEN GoldScript ELSE SecondaryOrder[i - 2]]
        /\ returned = QuietResult

\* the same for the runs without the verbose flag alone
C29_QuietRuns == verbose \/ C29_VerbosityNeutral

\* the scripts a verbose run runs are those of the run without the flag
C29_SameScriptsRun ==
    UpdateReturned =>
        [i \in DOMAIN runs |-> runs[i].script] =
            [i \in 1 .. (IF \A j \in 1 .. 2 : runs[j].behaviour = "succeeds"
                         THEN 2 + Len(SecondaryOrder) ELSE 2) |->
                IF i <= 2 THEN GoldScript ELSE SecondaryOrder[i - 2]]

-----------------------------------------------------------------------------
(* Properties of fetch_all_data *)

FetchReturned == pc = "fetch_returned"

\* the first date to fetch: max(1 January of start_year, 2 January 2013)
FirstDate == Max(JanFirst(start_year), 1)

\* the ranges start at FirstDate, each next range starts the day after the
\* previous one ends, no range ends before it starts (so no day is
\* requested twice) or more than 93 days after it starts
RangesChained ==
    /\ requests # <<>> => requests[1].start = FirstDate
    /\ \A i \in DOMAIN requests :
          /\ requests[i].start <= requests[i].end
          /\ requests[i].end - requests[i].start <= API_LIMIT_DAYS
          /\ i > 1 => requests[i].start = requests[i - 1].end + 1

\* when fetch_all_data returns, the ranges reach today's date
ReachesToday ==
    (FetchReturned /\ FirstDate <= DateOf(today)) =>
        /\ requests # <<>>
        /\ requests[Len(requests)].end = DateOf(today)

\* C30: the chunked gold-price fetch covers the period without gaps.  The
\* requested ranges start at max(1 January of start_year, 2013-01-02), each
\* next range starts the day after the previous one ends, no day is
\* requested twice, the last range ends on today's date, no range ends more
\* than 93 days after its start, and the loop terminates.
C30_ChunkedFetchCovers ==
    /\ [](RangesChained /\ ReachesToday)
    /\ <>(pc \in {"fetch_returned", "fetch_raised"})

\* what holds at any time of day: the ranges are chained, the loop
\* terminates, and the last range ends today or, at midnight, the day before
C30_CoversUpToMidnight ==
    /\ []RangesChained
    /\ [](today > Midnight(DateOf(today)) => ReachesToday)
    /\ [](FetchReturned /\ requests # <<>> =>
              requests[Len(requests)].end \in {DateOf(today), DateOf(today) - 1})
    /\ <>(pc \in {"fetch_returned", "fetch_raised"})

=============================================================================
